---- MODULE Spec2Model ----
(***************************************************************************)
(* Request handling of the Sixerr plugin: the three handleIncomingRequest  *)
(* implementations (Chat-Completions inference handler, Responses          *)
(* inference handler, OpenClaw gateway forwarder), their deadline timer,   *)
(* and the frames they hand to sendMessage.  The LLM capability            *)
(* (streamSimple / completeSimple), the API-key lookup and the gateway are *)
(* the environment: they choose events, results and failures.              *)
(***************************************************************************)
EXTENDS Integers, Sequences, FiniteSets, TLC

(***************************************************************************)
(* Bounds of the model.                                                    *)
(***************************************************************************)
MaxEvents == 3        \* backend stream events delivered to one invocation (Spec)
MaxConcEvents == 2    \* backend stream events delivered in all (SpecConc)

\* The invocations of handleIncomingRequest: one runs under Spec, both run
\* concurrently under SpecConc.
Handlers == {1, 2}
RequestIds == {"r1", "r2"}
\* Request ids are opaque: an invocation takes an id already in use or the
\* first unused one of this order.
IdOrder == << "r1", "r2" >>
Dialects == {"chat", "responses", "gateway"}

\* body.stream as the request carries it; only the boolean true streams.
StreamValues == {"true", "false", "absent"}
\* body.messages (Chat-Completions) / body.input (Responses):
\*   "readable"        a list of entries buildContext reads
\*   "absent"          undefined: the body has no such property
\*   "null_entry"      [null]
\*   "null_content"    [{role: "user", content: null}] /
\*                     [{type: "message", role: "user", content: null}]
\*   "number_content"  the same entry with content: 5
\*   "call_without_function"
\*                     [{role: "assistant", tool_calls: [{}]}]
ListValues == {"readable", "absent", "null_entry", "null_content",
               "number_content", "call_without_function"}
\* body.tools: undefined, a list of function tools, the string "abc", [{}].
ToolsValues == {"absent", "list", "string", "empty_entry"}
\* A body that is no object (null, a number, a string) spreads to an object
\* with none of the three properties.
Bodies ==
    [object : {TRUE}, list : ListValues, tools : ToolsValues, stream : StreamValues]
    \cup [object : {FALSE}, list : {"absent"}, tools : {"absent"},
          stream : {"absent"}]

(***************************************************************************)
(* Values the backend can report.                                          *)
(***************************************************************************)
\* pi-ai usage records; in the second totalTokens also counts cache tokens.
PiUsages ==
    { [input |-> 1, output |-> 1, totalTokens |-> 2],
      [input |-> 2, output |-> 1, totalTokens |-> 4] }

\* Text is a sequence of characters.
TextDeltas == { <<"a">>, <<"b">> }
ArgDeltas == { <<"{">>, <<"}">>, <<"{", " ", "}">> }

\* A parsed tool-call argument object, as the sequence of its keys (every
\* key maps to 1).
ArgValues == { <<>>, <<"a">> }
ToolCallIds == {"c1", "c2"}
ToolCallNames == {"f"}

\* What getApiKey, streamSimple, completeSimple and forwardToOpenClaw throw:
\* Error objects, with and without a message.
Exceptions == { [name |-> "Error", message |-> "boom"],
                [name |-> "Error", message |-> ""] }
\* The value undefined as a thrown value: a promise rejected without a
\* reason, "throw undefined".
ThrownUndefined == [name |-> "undefined", message |-> ""]
\* What a catch clause can receive: JavaScript throws any value.
ThrownValues == Exceptions \cup {ThrownUndefined}
\* No exception.
NoFailure == [name |-> "none", message |-> ""]
TypeError(message) == [name |-> "TypeError", message |-> message]

\* The loop of buildContext over body.messages / body.input: the exception
\* it throws, NoFailure when it ends.  A Responses item without a type is
\* skipped.
ListThrows(d, list) ==
    IF d = "chat"
    THEN CASE list = "absent" -> TypeError("messages is not iterable")
           [] list = "null_entry" ->
                TypeError("Cannot read properties of null (reading 'role')")
           [] list = "null_content" ->
                TypeError("Cannot read properties of null (reading 'filter')")
           [] list = "number_content" ->
                TypeError("msg.content.filter is not a function")
           [] list = "call_without_function" ->
                TypeError("Cannot read properties of undefined (reading 'arguments')")
           [] OTHER -> NoFailure
    ELSE CASE list = "absent" -> TypeError("input is not iterable")
           [] list = "null_entry" ->
                TypeError("Cannot read properties of null (reading 'type')")
           [] list = "null_content" ->
                TypeError("Cannot read properties of null (reading 'map')")
           [] list = "number_content" ->
                TypeError("content.map is not a function")
           [] OTHER -> NoFailure

\* convertTools(tools), which the Chat-Completions buildContext calls for
\* tools of positive length when it builds the context it returns.
ConvertToolsThrows(tools) ==
    CASE tools = "string" -> TypeError("tools.map is not a function")
      [] tools = "empty_entry" ->
           TypeError("Cannot read properties of undefined (reading 'name')")
      [] OTHER -> NoFailure

\* buildContext(messages, tools) / buildContext(input, instructions) on the
\* properties of the body: the exception it throws, NoFailure when it
\* returns.  The loop over the list runs first; the Responses handler does
\* not read tools.
BuildContextThrows(d, body) ==
    IF ListThrows(d, body.list) # NoFailure THEN ListThrows(d, body.list)
    ELSE IF d = "chat" THEN ConvertToolsThrows(body.tools)
    ELSE NoFailure

ErrorMessages == {"", "backend failed"}

StreamEvents ==
    [type : {"text_delta"}, delta : TextDeltas]
    \cup [type : {"text_start"}]
    \cup [type : {"toolcall_start"}]
    \cup [type : {"toolcall_delta"}, delta : ArgDeltas]
    \cup [type : {"toolcall_end"},
          toolCall : [id : ToolCallIds, name : ToolCallNames, arguments : ArgValues]]
    \cup [type : {"done"}, message : [usage : PiUsages]]
    \cup [type : {"error"}, error : [errorMessage : ErrorMessages, usage : PiUsages]]

\* completeSimple results.
TextPart(t) == [type |-> "text", text |-> t]
ToolCallPart(i, n, a) == [type |-> "toolCall", id |-> i, name |-> n, arguments |-> a]
CompleteResults ==
    { [content |-> <<TextPart(<<"a">>)>>, stopReason |-> "stop",
       usage |-> [input |-> 1, output |-> 1, totalTokens |-> 2]],
      [content |-> <<TextPart(<<"a">>), ToolCallPart("c1", "f", <<"a">>), TextPart(<<"b">>)>>,
       stopReason |-> "toolUse",
       usage |-> [input |-> 2, output |-> 1, totalTokens |-> 4]],
      [content |-> << >>, stopReason |-> "length",
       usage |-> [input |-> 2, output |-> 1, totalTokens |-> 4]] }

\* Parsed JSON bodies the gateway answers with.
GatewayResponses == {"resp-1"}

(***************************************************************************)
(* State.                                                                  *)
(***************************************************************************)
VARIABLES
    pc,                   \* position of each handleIncomingRequest invocation
    requestId,            \* its requestId argument
    dialect,              \* which handler implementation runs it
    isStreaming,          \* forwardBody.stream === true
    timer,                \* the setTimeout of the deadline
    aborted,              \* abortController.signal.aborted
    graceOver,            \* deadline and grace period have both passed
    accumulatedText,      \* handleStreaming local
    usage,                \* handleStreaming local
    completedToolCalls,   \* handleStreaming local (chat)
    currentToolCallIndex, \* handleStreaming local (chat)
    reported,             \* the usages of the done / error events delivered
    partialArgs,          \* backend: argument text streamed for the open tool call
    failure,              \* the exception the invocation ran into, if any
    eventsLeft,           \* backend events still to be delivered
    slots,                \* invocations that may still start
    sent,                 \* frames handed to sendMessage, in order
    emitter,              \* for each frame of sent, the invocation that sent it
    input,                \* a function of the translators and its arguments
    output,               \* what that function returned, once it has run
    sessionState,         \* session: connection state
    jwt,                  \* session: stored credential
    socket,               \* session: the current socket
    generation,           \* session: number of sockets created so far
    backoffTimer,         \* session: the reconnect timer
    attempts,             \* session: reconnect-attempt counter
    pending,              \* session: ids of the PendingRequests
    wire,                 \* session: frames written to the socket, in order
    inbox,                \* session: frames read from the socket, in order
    stopped,              \* session: stop() has been called
    authFailed,           \* session: an auth_error was received
    inboundLeft           \* session: network and caller events still to come

\* The state of the handleIncomingRequest invocations.
handlerVars == << pc, requestId, dialect, isStreaming, timer, aborted, graceOver,
                  accumulatedText, usage, completedToolCalls,
                  currentToolCallIndex, reported, partialArgs, failure,
                  eventsLeft, slots, sent, emitter >>

\* The state of a single call of a translator function.
callVars == << input, output >>

\* The state of the session with the broker.
sessionVars == << sessionState, jwt, socket, generation, backoffTimer, attempts,
                  pending, wire, inbox, stopped, authFailed, inboundLeft >>

vars == << handlerVars, callVars, sessionVars >>

\* The backend has no tool call open.
NoCall == << "no call" >>

(***************************************************************************)
(* Pure helpers.                                                           *)
(***************************************************************************)
\* An object without fields: the delta of the final chunk.
EmptyObject == [k \in {} |-> k]

\* JSON null, as a value no text is equal to.
Null == << "null value" >>

RECURSIVE Concat(_)
\* The concatenation of a sequence of texts, no separator (Array.join("")).
Concat(texts) ==
    IF texts = << >> THEN << >> ELSE Head(texts) \o Concat(Tail(texts))

RECURSIVE SelectParts(_, _)
\* result.content.filter(c => c.type === t)
SelectParts(content, t) ==
    IF content = << >> THEN << >>
    ELSE IF Head(content).type = t
         THEN << Head(content) >> \o SelectParts(Tail(content), t)
         ELSE SelectParts(Tail(content), t)

RECURSIVE Members(_)
\* The members of an argument object as JSON.stringify writes them.
Members(keys) ==
    IF keys = << >> THEN << >>
    ELSE << "\"", Head(keys), "\"", ":", "1" >>
         \o (IF Tail(keys) = << >> THEN << >> ELSE << "," >>)
         \o Members(Tail(keys))

\* JSON.stringify of a parsed argument object: no whitespace.
JSONstringify(value) == << "{" >> \o Members(value) \o << "}" >>

RECURSIVE StripSpaces(_)
StripSpaces(text) ==
    IF text = << >> THEN << >>
    ELSE IF Head(text) = " " THEN StripSpaces(Tail(text))
         ELSE << Head(text) >> \o StripSpaces(Tail(text))

\* Over the characters of ArgDeltas the only JSON texts are "{}" with
\* optional whitespace; JSON.parse of them is the empty object.
ParsesAsJSON(text) == StripSpaces(text) = << "{", "}" >>
JSONparse(text) == << >>

\* (err as Error).message || String(err), for a thrown value that has
\* properties.
ErrorText(err) == IF err.message # "" THEN err.message ELSE err.name

\* (err as Error).message with err undefined: the expression throws.
MessageOfUndefined ==
    TypeError("Cannot read properties of undefined (reading 'message')")

\* Mutant of toChatCompletionsUsage: the total is computed, not passed on.
toChatCompletionsUsageSummed(piUsage) ==
    [prompt_tokens |-> piUsage.input,
     completion_tokens |-> piUsage.output,
     total_tokens |-> piUsage.input + piUsage.output]

toChatCompletionsUsage(piUsage) ==
    [prompt_tokens |-> piUsage.input,
     completion_tokens |-> piUsage.output,
     total_tokens |-> piUsage.totalTokens]

toOpenResponsesUsage(piUsage) ==
    [input_tokens |-> piUsage.input,
     output_tokens |-> piUsage.output,
     total_tokens |-> piUsage.totalTokens]

\* "let usage = { ... 0, 0, 0 }" of each handleStreaming.
InitialUsage(d) ==
    IF d = "chat"
    THEN [prompt_tokens |-> 0, completion_tokens |-> 0, total_tokens |-> 0]
    ELSE [input_tokens |-> 0, output_tokens |-> 0, total_tokens |-> 0]

ConvertUsage(d, piUsage) ==
    IF d = "chat" THEN toChatCompletionsUsage(piUsage)
    ELSE toOpenResponsesUsage(piUsage)

(***************************************************************************)
(* Frames.  Random identifiers, timestamps and the model name are left out *)
(* of the bodies: no claim reads them.                                     *)
(***************************************************************************)
ErrorFrame(id, message) ==
    [type |-> "error", id |-> id, code |-> "plugin_error", message |-> message]

StreamEndFrame(id, u) == [type |-> "stream_end", id |-> id, usage |-> u]

ResponseFrame(id, body) == [type |-> "response", id |-> id, body |-> body]

\* Mutant of StreamEventFrame: the id of the first request, kept in a shared
\* variable, instead of the invocation's own.
StreamEventFrameSharedId(id, event) ==
    [type |-> "stream_event", id |-> IdOrder[1], event |-> event]

StreamEventFrame(id, event) == [type |-> "stream_event", id |-> id, event |-> event]

\* emitChunk(delta, finishReason); a null finish_reason is "null".
emitChunk(id, delta, finishReason) ==
    StreamEventFrame(id,
        [object |-> "chat.completion.chunk",
         choices |-> << [index |-> 0, delta |-> delta, finish_reason |-> finishReason] >>])

buildResponseResource(text, u, status) ==
    [object |-> "response",
     status |-> status,
     output |-> << [type |-> "message", role |-> "assistant",
                    content |-> << [type |-> "output_text", text |-> text] >>,
                    status |-> "completed"] >>,
     usage |-> u]

(***************************************************************************)
(* handleStreaming, per dialect: the frames of each step and the updates   *)
(* of its locals.                                                          *)
(***************************************************************************)
\* The frames sent before streamSimple is called.
OpenFrames(d, id) ==
    IF d = "chat"
    THEN << emitChunk(id, [role |-> "assistant"], "null") >>
    ELSE << StreamEventFrame(id,
               [type |-> "response.created",
                response |-> [object |-> "response", status |-> "in_progress",
                              output |-> << >>, usage |-> InitialUsage(d)]]),
            StreamEventFrame(id,
               [type |-> "response.output_item.added", output_index |-> 0,
                item |-> [type |-> "message", role |-> "assistant",
                          content |-> << >>, status |-> "in_progress"]]),
            StreamEventFrame(id,
               [type |-> "response.content_part.added", output_index |-> 0,
                content_index |-> 0,
                part |-> [type |-> "output_text", text |-> << >>]]) >>

\* const argsString = JSON.stringify(tc.arguments)
ArgsString(toolCall) == JSONstringify(toolCall.arguments)

\* The entry pushed on completedToolCalls, also the tool call of the chunk.
ToolCallItem(toolCall) ==
    [id |-> toolCall.id, type |-> "function",
     function |-> [name |-> toolCall.name, arguments |-> ArgsString(toolCall)]]

\* currentToolCallIndex after an event.
NextToolCallIndex(completed, index, ev) ==
    IF ev.type = "toolcall_start" THEN Len(completed) ELSE index

\* The error frame of a typed error event: only for a truthy errorMessage.
ErrorEventFrames(id, ev) ==
    IF ev.error.errorMessage # ""
    THEN << ErrorFrame(id, ev.error.errorMessage) >>
    ELSE << >>

\* Chat-Completions: the frames one event of the for-await loop sends.
ChatEventFrames(id, completed, index, ev) ==
    CASE ev.type = "text_delta" ->
           << emitChunk(id, [content |-> ev.delta], "null") >>
      [] ev.type = "toolcall_start" ->
           << emitChunk(id,
                [tool_calls |-> << [index |-> NextToolCallIndex(completed, index, ev),
                                    id |-> "", type |-> "function",
                                    function |-> [name |-> "", arguments |-> << >>]] >>],
                "null") >>
      [] ev.type = "toolcall_delta" ->
           << emitChunk(id,
                [tool_calls |-> << [index |-> index,
                                    function |-> [arguments |-> ev.delta]] >>],
                "null") >>
      [] ev.type = "toolcall_end" ->
           << emitChunk(id,
                [tool_calls |-> << [index |-> index] @@ ToolCallItem(ev.toolCall) >>],
                "null") >>
      [] ev.type = "error" -> ErrorEventFrames(id, ev)
      [] OTHER -> << >>

\* Mutant of ResponsesEventFrames: argument deltas are forwarded.
ResponsesEventFramesForwardsToolCalls(id, ev) ==
    CASE ev.type = "text_delta" ->
           << StreamEventFrame(id,
                [type |-> "response.output_text.delta", output_index |-> 0,
                 content_index |-> 0, delta |-> ev.delta]) >>
      [] ev.type = "toolcall_delta" ->
           << StreamEventFrame(id,
                [type |-> "response.function_call_arguments.delta",
                 output_index |-> 0, delta |-> ev.delta]) >>
      [] ev.type = "error" -> ErrorEventFrames(id, ev)
      [] OTHER -> << >>

\* Responses: the frames one event of the for-await loop sends.
ResponsesEventFrames(id, ev) ==
    CASE ev.type = "text_delta" ->
           << StreamEventFrame(id,
                [type |-> "response.output_text.delta", output_index |-> 0,
                 content_index |-> 0, delta |-> ev.delta]) >>
      [] ev.type = "error" -> ErrorEventFrames(id, ev)
      [] OTHER -> << >>

EventFrames(d, id, completed, index, ev) ==
    IF d = "chat" THEN ChatEventFrames(id, completed, index, ev)
    ELSE ResponsesEventFrames(id, ev)

\* Mutant of NextAccumulatedText: the buffer holds the latest delta only.
NextAccumulatedTextLatest(text, ev) ==
    IF ev.type = "text_delta" THEN ev.delta ELSE text

\* accumulatedText += event.delta
NextAccumulatedText(text, ev) ==
    IF ev.type = "text_delta" THEN text \o ev.delta ELSE text

\* Mutant of NextUsage: the reported usage is added to the stored one.
NextUsageAdded(d, u, ev) ==
    LET add(r) == IF d = "chat"
                  THEN [prompt_tokens |-> u.prompt_tokens + r.input,
                        completion_tokens |-> u.completion_tokens + r.output,
                        total_tokens |-> u.total_tokens + r.totalTokens]
                  ELSE [input_tokens |-> u.input_tokens + r.input,
                        output_tokens |-> u.output_tokens + r.output,
                        total_tokens |-> u.total_tokens + r.totalTokens]
    IN  CASE ev.type = "done" -> add(ev.message.usage)
          [] ev.type = "error" -> add(ev.error.usage)
          [] OTHER -> u

\* usage = toXUsage(event.message.usage) / toXUsage(event.error.usage)
NextUsage(d, u, ev) ==
    CASE ev.type = "done" -> ConvertUsage(d, ev.message.usage)
      [] ev.type = "error" -> ConvertUsage(d, ev.error.usage)
      [] OTHER -> u

\* completedToolCalls.push(...) on toolcall_end; the Responses loop has no
\* tool-call branch.
NextCompletedToolCalls(d, completed, ev) ==
    IF d = "chat" /\ ev.type = "toolcall_end"
    THEN Append(completed, ToolCallItem(ev.toolCall))
    ELSE completed

\* Mutant of StreamFinishReason: a stream always finishes with stop.
StreamFinishReasonStop(completed) == "stop"

\* const finishReason = completedToolCalls.length > 0 ? "tool_calls" : "stop"
StreamFinishReason(completed) ==
    IF Len(completed) > 0 THEN "tool_calls" ELSE "stop"

\* Mutant of FinalFrames: stream_end is sent before the finalize frames.
FinalFramesEndFirst(d, id, text, completed, u) ==
    IF d = "chat"
    THEN << StreamEndFrame(id, u),
            emitChunk(id, EmptyObject, StreamFinishReason(completed)) >>
    ELSE << StreamEndFrame(id, u),
            StreamEventFrame(id,
               [type |-> "response.output_text.done", output_index |-> 0,
                content_index |-> 0, text |-> text]),
            StreamEventFrame(id,
               [type |-> "response.completed",
                response |-> buildResponseResource(text, u, "completed")]) >>

\* The frames after the try/catch: finalize, then stream_end.
FinalFrames(d, id, text, completed, u) ==
    IF d = "chat"
    THEN << emitChunk(id, EmptyObject, StreamFinishReason(completed)),
            StreamEndFrame(id, u) >>
    ELSE << StreamEventFrame(id,
               [type |-> "response.output_text.done", output_index |-> 0,
                content_index |-> 0, text |-> text]),
            StreamEventFrame(id,
               [type |-> "response.completed",
                response |-> buildResponseResource(text, u, "completed")]),
            StreamEndFrame(id, u) >>

\* Mutant of StreamingCatchFrames: the exception is swallowed.
StreamingCatchSilent(id, err) == << >>

\* The catch around the for-await loop of handleStreaming.
StreamingCatchFrames(id, err) == << ErrorFrame(id, ErrorText(err)) >>

\* The catch of handleIncomingRequest.
OuterCatchFrames(id, err) == << ErrorFrame(id, ErrorText(err)) >>

(***************************************************************************)
(* handleNonStreaming, per dialect.                                        *)
(***************************************************************************)
\* result.content.filter(text).map(c => c.text).join("")
ResultText(result) ==
    LET parts == SelectParts(result.content, "text")
    IN  Concat([i \in 1..Len(parts) |-> parts[i].text])

\* Mutant of ToolCallItems: only the first tool call is kept.
ToolCallItemsFirstOnly(result) ==
    LET calls == SelectParts(result.content, "toolCall")
    IN  [i \in 1..(IF Len(calls) > 0 THEN 1 ELSE 0) |-> ToolCallItem(calls[i])]

\* toolCalls.map(tc => ({ id, type, function: { name, arguments } }))
ToolCallItems(result) ==
    LET calls == SelectParts(result.content, "toolCall")
    IN  [i \in 1..Len(calls) |-> ToolCallItem(calls[i])]

NonStreamingFinishReason(result) ==
    IF Len(ToolCallItems(result)) > 0 THEN "tool_calls"
    ELSE IF result.stopReason = "length" THEN "length"
    ELSE "stop"

ChatCompletionBody(result) ==
    LET text == ResultText(result)
        items == ToolCallItems(result)
        message == [role |-> "assistant",
                    content |-> IF text = << >> THEN Null ELSE text]
                   @@ (IF Len(items) > 0 THEN [tool_calls |-> items] ELSE EmptyObject)
    IN  [object |-> "chat.completion",
         choices |-> << [index |-> 0, message |-> message,
                         finish_reason |-> NonStreamingFinishReason(result)] >>,
         usage |-> toChatCompletionsUsage(result.usage)]

ResponsesBody(result) ==
    buildResponseResource(ResultText(result), toOpenResponsesUsage(result.usage),
                          "completed")

\* Mutant of NonStreamingFrames: a result without text sends no frame.
NonStreamingFramesUnlessEmpty(d, id, result) ==
    IF ResultText(result) = << >> THEN << >>
    ELSE << ResponseFrame(id, IF d = "chat" THEN ChatCompletionBody(result)
                              ELSE ResponsesBody(result)) >>

NonStreamingFrames(d, id, result) ==
    << ResponseFrame(id, IF d = "chat" THEN ChatCompletionBody(result)
                         ELSE ResponsesBody(result)) >>

\* No translator function is called on its own.
NoInput == [fn |-> "none"]
NotReturned == [returned |-> FALSE]
NoCallMade == input = NoInput /\ output = NotReturned

\* No session is started.
NoSession ==
    /\ sessionState = "CLOSED"
    /\ jwt = "none"
    /\ socket = "none"
    /\ generation = 0
    /\ backoffTimer = "idle"
    /\ attempts = 0
    /\ pending = {}
    /\ wire = << >>
    /\ inbox = << >>
    /\ stopped = FALSE
    /\ authFailed = FALSE
    /\ inboundLeft = 0

(***************************************************************************)
(* Initial state: no invocation has started, nothing was sent.             *)
(***************************************************************************)
Init ==
    /\ pc = [h \in Handlers |-> "idle"]
    /\ requestId = [h \in Handlers |-> "none"]
    /\ dialect = [h \in Handlers |-> "none"]
    /\ isStreaming = [h \in Handlers |-> FALSE]
    /\ timer = [h \in Handlers |-> "unset"]
    /\ aborted = [h \in Handlers |-> FALSE]
    /\ graceOver = [h \in Handlers |-> FALSE]
    /\ accumulatedText = [h \in Handlers |-> << >>]
    /\ usage = [h \in Handlers |-> InitialUsage("chat")]
    /\ completedToolCalls = [h \in Handlers |-> << >>]
    /\ currentToolCallIndex = [h \in Handlers |-> 0]
    /\ reported = [h \in Handlers |-> << >>]
    /\ partialArgs = [h \in Handlers |-> NoCall]
    /\ failure = [h \in Handlers |-> NoFailure]
    /\ eventsLeft = MaxEvents
    /\ slots = 1
    /\ sent = << >>
    /\ emitter = << >>
    /\ NoCallMade
    /\ NoSession

\* sendMessage(frame) for each frame, by invocation h.
Send(h, frames) ==
    /\ sent' = sent \o frames
    /\ emitter' = emitter \o [i \in 1..Len(frames) |-> h]

\* Mutant of ClearTimeout: no finally block, the timer is left as it is.
ClearTimeoutSkipped(h) ==
    timer' = timer

\* finally { clearTimeout(timeoutId) }: a timer that has fired stays fired.
ClearTimeout(h) ==
    timer' = [timer EXCEPT ![h] = IF @ = "armed" THEN "cleared" ELSE @]

Running(h) == pc[h] \in {"streaming", "awaitComplete"}

\* handleStreaming / handleNonStreaming has sent its last frame and returned
\* ("returning": the await of handleIncomingRequest has not resumed yet), or
\* handleIncomingRequest has returned as well.
Finished(h) == pc[h] \in {"returning", "resolved"}

\* catch (err) { sendMessage({ type: "error", ... }) } of handleIncomingRequest:
\* the exception becomes an error frame and the promise resolves.  With err
\* undefined the frame's message expression throws inside the catch:
\* nothing is sent and the promise rejects with that TypeError.
OuterCatch(h, id, err) ==
    IF err = ThrownUndefined
    THEN /\ pc' = [pc EXCEPT ![h] = "rejected"]
         /\ failure' = [failure EXCEPT ![h] = MessageOfUndefined]
         /\ UNCHANGED << sent, emitter >>
    ELSE /\ pc' = [pc EXCEPT ![h] = "resolved"]
         /\ failure' = [failure EXCEPT ![h] = err]
         /\ Send(h, OuterCatchFrames(id, err))

(***************************************************************************)
(* handleIncomingRequest up to its first await.  The inference handlers    *)
(* clone the body, read stream, and run buildContext, which throws on a    *)
(* list or on tools it cannot read; the gateway forwarder clones the body, *)
(* forces stream to false and calls forwardToOpenClaw.                     *)
(***************************************************************************)
Request(h, id, d, body) ==
    /\ pc[h] = "idle"
    /\ \A g \in Handlers : g < h => pc[g] # "idle"
    /\ slots > 0
    /\ LET used == { requestId[g] : g \in { g \in Handlers : pc[g] # "idle" } }
       IN  \/ id \in used
           \/ /\ Cardinality(used) < Len(IdOrder)
              /\ id = IdOrder[Cardinality(used) + 1]
    /\ slots' = slots - 1
    /\ requestId' = [requestId EXCEPT ![h] = id]
    /\ dialect' = [dialect EXCEPT ![h] = d]
    /\ IF d = "gateway"
       THEN /\ pc' = [pc EXCEPT ![h] = "awaitForward"]
            /\ UNCHANGED << isStreaming, failure, sent, emitter >>
       ELSE /\ isStreaming' = [isStreaming EXCEPT ![h] = (body.stream = "true")]
            /\ IF BuildContextThrows(d, body) = NoFailure
               THEN /\ pc' = [pc EXCEPT ![h] = "awaitApiKey"]
                    /\ UNCHANGED << failure, sent, emitter >>
               ELSE OuterCatch(h, id, BuildContextThrows(d, body))
    /\ UNCHANGED << timer, aborted, graceOver, accumulatedText, usage,
                    completedToolCalls, currentToolCallIndex, reported,
                    partialArgs, eventsLeft,
                    callVars, sessionVars >>

\* await modelRegistry.getApiKey(...) returns: the deadline timer is set and
\* handleStreaming / handleNonStreaming runs up to its first await.
ApiKeyResolved(h) ==
    /\ pc[h] = "awaitApiKey"
    /\ timer' = [timer EXCEPT ![h] = "armed"]
    /\ IF isStreaming[h]
       THEN /\ pc' = [pc EXCEPT ![h] = "streaming"]
            /\ usage' = [usage EXCEPT ![h] = InitialUsage(dialect[h])]
            /\ Send(h, OpenFrames(dialect[h], requestId[h]))
       ELSE /\ pc' = [pc EXCEPT ![h] = "awaitComplete"]
            /\ UNCHANGED << usage, sent, emitter >>
    /\ UNCHANGED << requestId, dialect, isStreaming, aborted, graceOver,
                    accumulatedText, completedToolCalls, currentToolCallIndex,
                    reported, partialArgs, failure, eventsLeft, slots,
                    callVars, sessionVars >>

\* await modelRegistry.getApiKey(...) rejects: the outer catch.
ApiKeyRejected(h, err) ==
    /\ pc[h] = "awaitApiKey"
    /\ OuterCatch(h, requestId[h], err)
    /\ UNCHANGED << requestId, dialect, isStreaming, timer, aborted, graceOver,
                    accumulatedText, usage, completedToolCalls,
                    currentToolCallIndex, reported, partialArgs, eventsLeft, slots,
                    callVars, sessionVars >>

\* The backend's side of a tool call: the argument text it has streamed for
\* the tool call it has open, NoCall when it has none open.  The handlers
\* keep no such buffer and take every event in every order.
NextPartialArgs(buffer, ev) ==
    CASE ev.type = "toolcall_start" -> << >>
      [] ev.type = "toolcall_delta" ->
           IF buffer = NoCall THEN NoCall ELSE buffer \o ev.delta
      [] ev.type = "toolcall_end" -> NoCall
      [] OTHER -> buffer

\* The usages the backend has reported with done and error events, in order.
NextReported(history, ev) ==
    CASE ev.type = "done" -> Append(history, ev.message.usage)
      [] ev.type = "error" -> Append(history, ev.error.usage)
      [] OTHER -> history

\* Mutant of StreamEvent: accumulatedText is one buffer of the module, which
\* every stream appends to.
StreamEventSharedText(h, ev) ==
    /\ pc[h] = "streaming"
    /\ eventsLeft > 0
    /\ eventsLeft' = eventsLeft - 1
    /\ reported' = [reported EXCEPT ![h] = NextReported(@, ev)]
    /\ partialArgs' = [partialArgs EXCEPT ![h] = NextPartialArgs(@, ev)]
    /\ accumulatedText' =
          [g \in Handlers |-> NextAccumulatedText(accumulatedText[g], ev)]
    /\ usage' = [usage EXCEPT ![h] = NextUsage(dialect[h], @, ev)]
    /\ currentToolCallIndex' =
          [currentToolCallIndex EXCEPT ![h] =
              IF dialect[h] = "chat"
              THEN NextToolCallIndex(completedToolCalls[h], @, ev) ELSE @]
    /\ completedToolCalls' =
          [completedToolCalls EXCEPT ![h] = NextCompletedToolCalls(dialect[h], @, ev)]
    /\ Send(h, EventFrames(dialect[h], requestId[h], completedToolCalls[h],
                           currentToolCallIndex[h], ev))
    /\ UNCHANGED << pc, requestId, dialect, isStreaming, timer, aborted,
                    graceOver, failure, slots,
                    callVars, sessionVars >>

\* One iteration of "for await (const event of eventStream)".
StreamEvent(h, ev) ==
    /\ pc[h] = "streaming"
    /\ eventsLeft > 0
    /\ eventsLeft' = eventsLeft - 1
    /\ reported' = [reported EXCEPT ![h] = NextReported(@, ev)]
    /\ partialArgs' = [partialArgs EXCEPT ![h] = NextPartialArgs(@, ev)]
    /\ accumulatedText' = [accumulatedText EXCEPT ![h] = NextAccumulatedText(@, ev)]
    /\ usage' = [usage EXCEPT ![h] = NextUsage(dialect[h], @, ev)]
    /\ currentToolCallIndex' =
          [currentToolCallIndex EXCEPT ![h] =
              IF dialect[h] = "chat"
              THEN NextToolCallIndex(completedToolCalls[h], @, ev) ELSE @]
    /\ completedToolCalls' =
          [completedToolCalls EXCEPT ![h] = NextCompletedToolCalls(dialect[h], @, ev)]
    /\ Send(h, EventFrames(dialect[h], requestId[h], completedToolCalls[h],
                           currentToolCallIndex[h], ev))
    /\ UNCHANGED << pc, requestId, dialect, isStreaming, timer, aborted,
                    graceOver, failure, slots,
                    callVars, sessionVars >>

\* Mutant of StreamFinished: the loop over the events goes on after
\* stream_end.
StreamFinishedKeepsReading(h) ==
    /\ pc[h] = "streaming"
    /\ eventsLeft > 0
    /\ eventsLeft' = eventsLeft - 1
    /\ Send(h, FinalFrames(dialect[h], requestId[h], accumulatedText[h],
                           completedToolCalls[h], usage[h]))
    /\ UNCHANGED << pc, requestId, dialect, isStreaming, timer, aborted, graceOver,
                    accumulatedText, usage, completedToolCalls,
                    currentToolCallIndex, reported, partialArgs, failure,
                    slots,
                    callVars, sessionVars >>

\* The event stream ends: finalize and stream_end, and handleStreaming
\* returns.
StreamFinished(h) ==
    /\ pc[h] = "streaming"
    /\ pc' = [pc EXCEPT ![h] = "returning"]
    /\ Send(h, FinalFrames(dialect[h], requestId[h], accumulatedText[h],
                           completedToolCalls[h], usage[h]))
    /\ UNCHANGED << requestId, dialect, isStreaming, timer, aborted, graceOver,
                    accumulatedText, usage, completedToolCalls,
                    currentToolCallIndex, reported, partialArgs, failure,
                    eventsLeft, slots,
                    callVars, sessionVars >>

\* streamSimple or its iterator throws: the catch of handleStreaming, then
\* finalize and stream_end, and handleStreaming returns.  With err undefined
\* the message expression of that catch throws: handleStreaming sends
\* nothing more and rejects, and handleIncomingRequest runs clearTimeout and
\* its own catch on the TypeError.
StreamThrows(h, err) ==
    /\ pc[h] = "streaming"
    /\ IF err = ThrownUndefined
       THEN /\ OuterCatch(h, requestId[h], MessageOfUndefined)
            /\ ClearTimeout(h)
       ELSE /\ pc' = [pc EXCEPT ![h] = "returning"]
            /\ failure' = [failure EXCEPT ![h] = err]
            /\ Send(h, StreamingCatchFrames(requestId[h], err)
                       \o FinalFrames(dialect[h], requestId[h], accumulatedText[h],
                                      completedToolCalls[h], usage[h]))
            /\ UNCHANGED timer
    /\ UNCHANGED << requestId, dialect, isStreaming, aborted, graceOver,
                    accumulatedText, usage, completedToolCalls,
                    currentToolCallIndex, reported, partialArgs, eventsLeft, slots,
                    callVars, sessionVars >>

\* await completeSimple(...) returns: one response frame, and
\* handleNonStreaming returns.
CompleteReturns(h, result) ==
    /\ pc[h] = "awaitComplete"
    /\ pc' = [pc EXCEPT ![h] = "returning"]
    /\ Send(h, NonStreamingFrames(dialect[h], requestId[h], result))
    /\ UNCHANGED << requestId, dialect, isStreaming, timer, aborted, graceOver,
                    accumulatedText, usage, completedToolCalls,
                    currentToolCallIndex, reported, partialArgs, failure,
                    eventsLeft, slots,
                    callVars, sessionVars >>

\* "await handleStreaming(...)" / "await handleNonStreaming(...)" resumes in
\* handleIncomingRequest, in a later microtask than the return: finally {
\* clearTimeout }, and the promise resolves.
AwaitResumes(h) ==
    /\ pc[h] = "returning"
    /\ pc' = [pc EXCEPT ![h] = "resolved"]
    /\ ClearTimeout(h)
    /\ UNCHANGED << requestId, dialect, isStreaming, aborted, graceOver,
                    accumulatedText, usage, completedToolCalls,
                    currentToolCallIndex, reported, partialArgs, failure,
                    eventsLeft, slots, sent, emitter,
                    callVars, sessionVars >>

\* await completeSimple(...) rejects: clearTimeout, then the outer catch.
CompleteThrows(h, err) ==
    /\ pc[h] = "awaitComplete"
    /\ OuterCatch(h, requestId[h], err)
    /\ ClearTimeout(h)
    /\ UNCHANGED << requestId, dialect, isStreaming, aborted, graceOver,
                    accumulatedText, usage, completedToolCalls,
                    currentToolCallIndex, reported, partialArgs, eventsLeft, slots,
                    callVars, sessionVars >>

\* setTimeout(() => abortController.abort(), timeoutMs) fires.  Timer
\* callbacks run only when no microtask is queued, so not between the return
\* of handleStreaming / handleNonStreaming and the resumption of the await.
Timeout(h) ==
    /\ timer[h] = "armed"
    /\ pc[h] # "returning"
    /\ timer' = [timer EXCEPT ![h] = "fired"]
    /\ aborted' = [aborted EXCEPT ![h] = TRUE]
    /\ UNCHANGED << pc, requestId, dialect, isStreaming, graceOver,
                    accumulatedText, usage, completedToolCalls,
                    currentToolCallIndex, reported, partialArgs, failure,
                    eventsLeft, slots, sent, emitter,
                    callVars, sessionVars >>

\* Time passes after the deadline while the backend has not returned: no
\* code of the handler runs.
GracePeriodElapses(h) ==
    /\ timer[h] = "fired"
    /\ Running(h)
    /\ ~graceOver[h]
    /\ graceOver' = [graceOver EXCEPT ![h] = TRUE]
    /\ UNCHANGED << pc, requestId, dialect, isStreaming, timer, aborted,
                    accumulatedText, usage, completedToolCalls,
                    currentToolCallIndex, reported, partialArgs, failure,
                    eventsLeft, slots, sent, emitter,
                    callVars, sessionVars >>

\* await forwardToOpenClaw(...) resolves: one response frame.
ForwardResolves(h, response) ==
    /\ pc[h] = "awaitForward"
    /\ pc' = [pc EXCEPT ![h] = "resolved"]
    /\ Send(h, << ResponseFrame(requestId[h], response) >>)
    /\ UNCHANGED << requestId, dialect, isStreaming, timer, aborted, graceOver,
                    accumulatedText, usage, completedToolCalls,
                    currentToolCallIndex, reported, partialArgs, failure,
                    eventsLeft, slots,
                    callVars, sessionVars >>

\* await forwardToOpenClaw(...) rejects: the catch of the forwarder.
ForwardRejects(h, err) ==
    /\ pc[h] = "awaitForward"
    /\ OuterCatch(h, requestId[h], err)
    /\ UNCHANGED << requestId, dialect, isStreaming, timer, aborted, graceOver,
                    accumulatedText, usage, completedToolCalls,
                    currentToolCallIndex, reported, partialArgs, eventsLeft, slots,
                    callVars, sessionVars >>

\* The steps of invocation h, with the caller drawing the body and the
\* backend its events, failures and results from the given sets.
\* forwardToOpenClaw rejects with Error objects only.
Step(h, bodies, evs, errs, results) ==
    \/ \E id \in RequestIds, d \in Dialects, body \in bodies : Request(h, id, d, body)
    \/ ApiKeyResolved(h)
    \/ \E err \in errs : ApiKeyRejected(h, err)
    \/ \E ev \in evs : StreamEvent(h, ev)
    \/ StreamFinished(h)
    \/ \E err \in errs : StreamThrows(h, err)
    \/ \E result \in results : CompleteReturns(h, result)
    \/ AwaitResumes(h)
    \/ \E err \in errs : CompleteThrows(h, err)
    \/ \E response \in GatewayResponses : ForwardResolves(h, response)
    \/ \E err \in errs \cap Exceptions : ForwardRejects(h, err)

Next ==
    \E h \in Handlers :
        \/ Step(h, Bodies, StreamEvents, Exceptions, CompleteResults)
        \/ Timeout(h)
        \/ GracePeriodElapses(h)

Spec == Init /\ [][Next]_vars

\* The same invocation with collaborators that may throw any value.
NextThrown ==
    \E h \in Handlers :
        \/ Step(h, Bodies, StreamEvents, ThrownValues, CompleteResults)
        \/ Timeout(h)
        \/ GracePeriodElapses(h)

SpecThrown == Init /\ [][NextThrown]_vars

\* Several invocations in flight at once, with fewer backend events in all.
InitConc ==
    /\ pc = [h \in Handlers |-> "idle"]
    /\ requestId = [h \in Handlers |-> "none"]
    /\ dialect = [h \in Handlers |-> "none"]
    /\ isStreaming = [h \in Handlers |-> FALSE]
    /\ timer = [h \in Handlers |-> "unset"]
    /\ aborted = [h \in Handlers |-> FALSE]
    /\ graceOver = [h \in Handlers |-> FALSE]
    /\ accumulatedText = [h \in Handlers |-> << >>]
    /\ usage = [h \in Handlers |-> InitialUsage("chat")]
    /\ completedToolCalls = [h \in Handlers |-> << >>]
    /\ currentToolCallIndex = [h \in Handlers |-> 0]
    /\ reported = [h \in Handlers |-> << >>]
    /\ partialArgs = [h \in Handlers |-> NoCall]
    /\ failure = [h \in Handlers |-> NoFailure]
    /\ eventsLeft = MaxConcEvents
    /\ slots = Cardinality(Handlers)
    /\ sent = << >>
    /\ emitter = << >>
    /\ NoCallMade
    /\ NoSession

\* The values the backend draws from when invocations run concurrently.
ConcStreamEvents ==
    { [type |-> "text_delta", delta |-> <<"a">>],
      [type |-> "toolcall_start"],
      [type |-> "toolcall_end",
       toolCall |-> [id |-> "c1", name |-> "f", arguments |-> << >>]],
      [type |-> "done",
       message |-> [usage |-> [input |-> 1, output |-> 1, totalTokens |-> 2]]],
      [type |-> "error",
       error |-> [errorMessage |-> "backend failed",
                  usage |-> [input |-> 2, output |-> 1, totalTokens |-> 4]]] }
ConcExceptions == { [name |-> "Error", message |-> "boom"] }
\* Bodies the concurrent invocations are given: readable, streaming or not,
\* and one buildContext cannot read.
ConcBodies ==
    [object : {TRUE}, list : {"readable", "absent"}, tools : {"absent"},
     stream : {"true", "false"}]
ConcResults ==
    { [content |-> <<TextPart(<<"a">>)>>, stopReason |-> "stop",
       usage |-> [input |-> 1, output |-> 1, totalTokens |-> 2]] }

NextConc ==
    \E h \in Handlers :
        \/ Step(h, ConcBodies, ConcStreamEvents, ConcExceptions, ConcResults)
        \/ Timeout(h)

SpecConc == InitConc /\ [][NextConc]_vars

(***************************************************************************)
(* Observations on the frames sent.                                        *)
(***************************************************************************)
RECURSIVE FramesFrom(_, _)
\* The frames invocation h has sent, in order, from position i of sent on.
FramesFrom(i, h) ==
    IF i > Len(sent) THEN << >>
    ELSE (IF emitter[i] = h THEN << sent[i] >> ELSE << >>) \o FramesFrom(i + 1, h)

FramesOf(h) == FramesFrom(1, h)

\* What a frame is in the stream protocol.
FrameClass(f) ==
    CASE f.type = "error" -> "error"
      [] f.type = "response" -> "response"
      [] f.type = "stream_end" -> "stream_end"
      [] f.type = "stream_event" /\ "object" \in DOMAIN f.event ->
           IF f.event.choices[1].finish_reason # "null" THEN "finalize"
           ELSE IF "role" \in DOMAIN f.event.choices[1].delta THEN "opened"
           ELSE "delta"
      [] OTHER ->
           CASE f.event.type = "response.created" -> "created"
             [] f.event.type = "response.output_item.added" -> "item_added"
             [] f.event.type = "response.content_part.added" -> "opened"
             [] f.event.type = "response.output_text.delta" -> "delta"
             [] f.event.type = "response.output_text.done" -> "text_done"
             [] f.event.type = "response.completed" -> "finalize"
             [] OTHER -> "unknown"

Classes(frames) == [i \in 1..Len(frames) |-> FrameClass(frames[i])]

CountClass(frames, c) ==
    Cardinality({ i \in 1..Len(frames) : FrameClass(frames[i]) = c })

\* The stream protocol of dialect d as an automaton over frame classes:
\* start -> (opening group) -> open -> (deltas) -> (finalize group) ->
\* finalized -> stream_end -> ended.  Error frames are accepted while open
\* only if errorsAllowed.
StreamStep(d, state, c, errorsAllowed) ==
    CASE state = "start" /\ d = "chat" /\ c = "opened" -> "open"
      [] state = "start" /\ d = "responses" /\ c = "created" -> "created"
      [] state = "created" /\ c = "item_added" -> "item_added"
      [] state = "item_added" /\ c = "opened" -> "open"
      [] state = "open" /\ c = "delta" -> "open"
      [] state = "open" /\ c = "error" /\ errorsAllowed -> "open"
      [] state = "open" /\ d = "chat" /\ c = "finalize" -> "finalized"
      [] state = "open" /\ d = "responses" /\ c = "text_done" -> "text_done"
      [] state = "text_done" /\ c = "finalize" -> "finalized"
      [] state = "finalized" /\ c = "stream_end" -> "ended"
      [] OTHER -> "violated"

RECURSIVE StreamState(_, _, _, _)
\* The state of the automaton after the classes cs, from state.
StreamState(d, state, cs, errorsAllowed) ==
    IF cs = << >> THEN state
    ELSE StreamState(d, StreamStep(d, state, Head(cs), errorsAllowed), Tail(cs),
                     errorsAllowed)

Started(h) == pc[h] # "idle"
\* handleStreaming was entered: the deadline timer is set just before.
EnteredStreaming(h) == Started(h) /\ isStreaming[h] /\ timer[h] # "unset"
NonStreaming(h) == Started(h) /\ ~isStreaming[h]

(***************************************************************************)
(* Claims.                                                                 *)
(***************************************************************************)

LastReportedUsage(h) ==
    IF reported[h] = << >> THEN InitialUsage(dialect[h])
    ELSE ConvertUsage(dialect[h], reported[h][Len(reported[h])])

\* C4: in a streaming request the usage carried by stream_end is the usage
\* of the last done or error event delivered (never a sum), and all zeros
\* when there was none.
C4_LastUsageWins ==
    \A h \in Handlers :
        EnteredStreaming(h) =>
            /\ usage[h] = LastReportedUsage(h)
            /\ Finished(h) =>
                 LET frames == FramesOf(h)
                     last == frames[Len(frames)]
                 IN  /\ last.type = "stream_end"
                     /\ last.usage = LastReportedUsage(h)

\* A finished stream in which two different usages were reported.
C4_Witness ==
    \E h \in Handlers :
        /\ EnteredStreaming(h)
        /\ pc[h] = "resolved"
        /\ Len(reported[h]) >= 2
        /\ reported[h][1] # reported[h][Len(reported[h])]

ToolCallEnds == { ev \in StreamEvents : ev.type = "toolcall_end" }

\* The tool call carried by the last frame sent.
LastToolCallSent(frames) == frames[Len(frames)].event.choices[1].delta.tool_calls[1]

\* The finish_reason of the finalize chunk of a finished chat stream.
FinishReasonSent(h) ==
    LET frames == FramesOf(h)
    IN  frames[Len(frames) - 1].event.choices[1].finish_reason

\* C3 (in the case most favourable to it: the streamed argument text is
\* valid JSON and the end event carries its parse): when a tool call ends,
\* the finalized tool-call frame and the entry appended to the completed
\* list carry the call's id and name and the concatenation of the delta
\* texts as the argument string.  Violated: handleStreaming keeps no
\* argument buffer and sends JSON.stringify of the end event's arguments, so
\* the streamed text "{ }" is finalized as "{}".
C3_ToolCallArgumentsOriginal ==
    [][ \A h \in Handlers : \A ev \in ToolCallEnds :
          (dialect[h] = "chat" /\ ParsesAsJSON(partialArgs[h])
             /\ ev.toolCall.arguments = JSONparse(partialArgs[h])
             /\ StreamEvent(h, ev))
          => /\ LastToolCallSent(sent').id = ev.toolCall.id
             /\ LastToolCallSent(sent').function.name = ev.toolCall.name
             /\ LastToolCallSent(sent').function.arguments = partialArgs[h]
             /\ completedToolCalls'[h] =
                  Append(completedToolCalls[h],
                         [id |-> ev.toolCall.id, type |-> "function",
                          function |-> [name |-> ev.toolCall.name,
                                        arguments |-> partialArgs[h]]])
      ]_vars

\* C5 (as stated): a request whose deadline expired before the backend had
\* completed has sent, when its handler has finished, exactly one error
\* frame and no response frame, whatever arrived from the backend after the
\* timeout.
C5_OneErrorOnTimeoutOriginal ==
    \A h \in Handlers :
        (aborted[h] /\ Finished(h))
        => /\ CountClass(FramesOf(h), "error") = 1
           /\ CountClass(FramesOf(h), "response") = 0

\* C6 (as stated): once the deadline and the grace period have passed with
\* the backend still not back, an error frame with code plugin_error and
\* message "timed out" has been sent for the request.
C6_TimedOutAfterGraceOriginal ==
    \A h \in Handlers :
        graceOver[h]
        => \E i \in 1..Len(sent) :
              /\ emitter[i] = h
              /\ sent[i] = [type |-> "error", id |-> requestId[h],
                            code |-> "plugin_error", message |-> "timed out"]

Pending(h) == pc[h] \notin {"idle", "resolved"}

\* C7 (as stated): at any time at most one pending request exists per
\* requestId, a second request frame with a pending id being answered by an
\* error frame with code duplicate_request instead of a unit of work.
C7_OnePendingPerIdOriginal ==
    \A g, h \in Handlers :
        (g # h /\ Pending(g) /\ Pending(h)) => requestId[g] # requestId[h]

C9_NeverRejectsOriginal ==
    \A h \in Handlers :
        /\ pc[h] # "rejected"
        /\ failure[h] # NoFailure =>
             /\ Finished(h)
             /\ \E i \in 1..Len(sent) :
                   /\ emitter[i] = h
                   /\ sent[i] = [type |-> "error", id |-> requestId[h],
                                 code |-> "plugin_error",
                                 message |-> ErrorText(failure[h])]

\* C10: every frame sent carries the requestId of the invocation that sent
\* it, in every interleaving of concurrent invocations.
C10_FramesCarryOwnId ==
    \A i \in 1..Len(sent) : sent[i].id = requestId[emitter[i]]

\* Two invocations with different ids whose frames interleave.
C10_Witness ==
    /\ requestId[1] # requestId[2]
    /\ \E i, j, k \in 1..Len(sent) :
          /\ i < j /\ j < k
          /\ emitter[i] = 1 /\ emitter[j] = 2 /\ emitter[k] = 1
          /\ sent[j].type = "stream_event"
          /\ sent[k].type = "stream_end"

(***************************************************************************)
(* buildContext of the two dialects: request messages / input items to the *)
(* canonical conversation (pi-ai Context) and the extracted images.        *)
(***************************************************************************)
MaxMessages == 2      \* messages / input items of one request body

\* undefined: an absent optional field or argument.
Undefined == << "undefined" >>
\* undefined where a list, and where an object, is expected otherwise.
UndefinedList == << [undefined |-> TRUE] >>
UndefinedObject == [undefined |-> TRUE]

\* A string content and an array content, told apart as typeof does.
Str(t) == [is |-> "string", text |-> t]
Arr(xs) == [is |-> "array", items |-> xs]

\* JavaScript truthiness of a string, null or undefined.
Truthy(v) == v \notin { << >>, Null, Undefined }

WhiteSpace == { " ", "\n" }

RECURSIVE Join(_, _)
\* Array.join(sep)
Join(texts, sep) ==
    IF texts = << >> THEN << >>
    ELSE IF Len(texts) = 1 THEN texts[1]
    ELSE texts[1] \o sep \o Join(Tail(texts), sep)

RECURSIVE TrimStart(_)
TrimStart(text) ==
    IF text # << >> /\ Head(text) \in WhiteSpace THEN TrimStart(Tail(text))
    ELSE text

RECURSIVE TrimEnd(_)
TrimEnd(text) ==
    IF text # << >> /\ text[Len(text)] \in WhiteSpace
    THEN TrimEnd(SubSeq(text, 1, Len(text) - 1))
    ELSE text

\* String.prototype.trim
Trim(text) == TrimEnd(TrimStart(text))

RECURSIVE FlatMap(_, _)
\* The concatenation of F(x) over the elements x of a list, in order.
FlatMap(F(_), xs) ==
    IF xs = << >> THEN << >> ELSE F(Head(xs)) \o FlatMap(F, Tail(xs))

\* The usage buildContext gives an assistant turn of the request.
ZeroUsage == [input |-> 0, output |-> 0, totalTokens |-> 0]

EmptyUserTurn == [role |-> "user", content |-> << >>]

(***************************************************************************)
(* Chat-Completions dialect.                                               *)
(***************************************************************************)
\* An image URL: startsWith("data:") and /^data:(image\/[^;]+);base64,(.+)$/
\* read its scheme, media type, encoding and payload.
DataUriMatches(url) ==
    /\ url.scheme = "data"
    /\ url.mediaType \in {"image/png"}
    /\ url.encoding = "base64"
    /\ url.data # ""

\* extractImages(content) of the chat handler.
ChatImagesOfPart(part) ==
    IF part.type = "image_url" /\ DataUriMatches(part.image_url.url)
    THEN << [type |-> "image", data |-> part.image_url.url.data,
             mimeType |-> part.image_url.url.mediaType] >>
    ELSE << >>

ChatExtractImages(content) == FlatMap(ChatImagesOfPart, content)

ChatTextOfPart(part) == IF part.type = "text" THEN << part.text >> ELSE << >>

\* Mutant of ParsedArgs: a string that does not parse becomes {}.
ParsedArgsEmptyOnFailure(text) ==
    IF ParsesAsJSON(text) THEN JSONparse(text) ELSE EmptyObject

\* try { JSON.parse(arguments) } catch { { _raw: arguments } }
ParsedArgs(text) == IF ParsesAsJSON(text) THEN JSONparse(text) ELSE [_raw |-> text]

ChatToolCallOf(tc) ==
    << ToolCallPart(tc.id, tc.function.name, ParsedArgs(tc.function.arguments)) >>

HasToolCalls(msg) == msg.tool_calls # UndefinedList /\ Len(msg.tool_calls) > 0

\* Mutant of ChatTurnsOf: the tool-result turn loses its tool_call_id.
ChatTurnsOfUnkeyed(msg) ==
    CASE msg.role = "user" ->
           IF msg.content.is = "string"
           THEN << [role |-> "user", content |-> msg.content.text] >>
           ELSE LET text == Join(FlatMap(ChatTextOfPart, msg.content.items), << "\n" >>)
                IN  << [role |-> "user",
                        content |-> IF text # << >> THEN << TextPart(text) >>
                                    ELSE << >>] >>
      [] msg.role = "assistant" ->
           << [role |-> "assistant",
               content |->
                  (IF Truthy(msg.content) THEN << TextPart(msg.content) >> ELSE << >>)
                  \o (IF HasToolCalls(msg)
                      THEN FlatMap(ChatToolCallOf, msg.tool_calls) ELSE << >>),
               api |-> "openai-completions",
               usage |-> ZeroUsage,
               stopReason |-> IF HasToolCalls(msg) THEN "toolUse" ELSE "stop"] >>
      [] msg.role = "tool" ->
           << [role |-> "toolResult", toolCallId |-> "",
               toolName |-> << >>, content |-> << TextPart(msg.content) >>,
               isError |-> FALSE] >>
      [] OTHER -> << >>

\* The turns one message adds to piMessages.
ChatTurnsOf(msg) ==
    CASE msg.role = "user" ->
           IF msg.content.is = "string"
           THEN << [role |-> "user", content |-> msg.content.text] >>
           ELSE LET text == Join(FlatMap(ChatTextOfPart, msg.content.items), << "\n" >>)
                IN  << [role |-> "user",
                        content |-> IF text # << >> THEN << TextPart(text) >>
                                    ELSE << >>] >>
      [] msg.role = "assistant" ->
           << [role |-> "assistant",
               content |->
                  (IF Truthy(msg.content) THEN << TextPart(msg.content) >> ELSE << >>)
                  \o (IF HasToolCalls(msg)
                      THEN FlatMap(ChatToolCallOf, msg.tool_calls) ELSE << >>),
               api |-> "openai-completions",
               usage |-> ZeroUsage,
               stopReason |-> IF HasToolCalls(msg) THEN "toolUse" ELSE "stop"] >>
      [] msg.role = "tool" ->
           << [role |-> "toolResult", toolCallId |-> msg.tool_call_id,
               toolName |-> << >>, content |-> << TextPart(msg.content) >>,
               isError |-> FALSE] >>
      [] OTHER -> << >>

ChatSystemPartsOf(msg) ==
    IF msg.role = "system" THEN << msg.content.text >> ELSE << >>

ChatImagesOf(msg) ==
    IF msg.role = "user" /\ msg.content.is = "array"
    THEN ChatExtractImages(msg.content.items) ELSE << >>

\* convertTools(tools)
convertTool(td) ==
    << [name |-> td.function.name,
        description |-> IF td.function.description \in {Undefined, Null}
                        THEN << >> ELSE td.function.description,
        parameters |-> IF td.function.parameters = UndefinedObject
                       THEN EmptyObject ELSE td.function.parameters] >>

SystemPrompt(systemParts) ==
    IF Len(systemParts) > 0 THEN Join(systemParts, << "\n", "\n" >>) ELSE Undefined

\* Mutant of ChatBuildContext: no empty user message is added.
ChatBuildContextNoSubstitute(messages, tools) ==
    [context |->
        [systemPrompt |-> SystemPrompt(FlatMap(ChatSystemPartsOf, messages)),
         messages |-> FlatMap(ChatTurnsOf, messages)],
     images |-> FlatMap(ChatImagesOf, messages)]

\* buildContext(messages, tools) of the chat handler.
ChatBuildContext(messages, tools) ==
    LET piMessages == FlatMap(ChatTurnsOf, messages)
    IN  [context |->
            [systemPrompt |-> SystemPrompt(FlatMap(ChatSystemPartsOf, messages)),
             messages |-> IF Len(piMessages) = 0 THEN << EmptyUserTurn >>
                          ELSE piMessages]
            @@ (IF tools # UndefinedList /\ Len(tools) > 0
                THEN [tools |-> FlatMap(convertTool, tools)] ELSE EmptyObject),
         images |-> FlatMap(ChatImagesOf, messages)]

(***************************************************************************)
(* Responses dialect.                                                      *)
(***************************************************************************)
\* The text a part contributes in extractTextContent ("" for other parts).
ResponsesTextOfPart(part) ==
    IF part.type \in {"input_text", "output_text"} THEN << part.text >> ELSE << << >> >>

\* .filter(Boolean) on texts
DropEmpty(text) == IF text # << >> THEN << text >> ELSE << >>

\* extractTextContent(content)
extractTextContent(content) ==
    IF content.is = "string" THEN content.text
    ELSE Join(FlatMap(DropEmpty, FlatMap(ResponsesTextOfPart, content.items)),
              << "\n" >>)

ResponsesImagesOfPart(part) ==
    IF part.type = "input_image" /\ part.source.type = "base64"
    THEN << [type |-> "image", data |-> part.source.data,
             mimeType |-> part.source.media_type] >>
    ELSE << >>

\* extractImages(content) of the responses handler.
extractImages(content) ==
    IF content.is = "string" THEN << >>
    ELSE FlatMap(ResponsesImagesOfPart, content.items)

\* Mutant of ItemText: the text is not trimmed.
ItemTextUntrimmed(item) == extractTextContent(item.content)

\* const text = extractTextContent(item.content).trim()
ItemText(item) == Trim(extractTextContent(item.content))

\* A message item without text is skipped whole ("if (!text) continue").
ItemKept(item) == item.type = "message" /\ ItemText(item) # << >>

ResponsesTurnsOf(item) ==
    CASE ItemKept(item) /\ item.role = "user" ->
           << [role |-> "user",
               content |-> IF Len(extractImages(item.content)) > 0
                           THEN << TextPart(ItemText(item)) >>
                           ELSE ItemText(item)] >>
      [] ItemKept(item) /\ item.role = "assistant" ->
           << [role |-> "assistant",
               content |-> << TextPart(ItemText(item)) >>,
               api |-> "openai-responses",
               usage |-> ZeroUsage,
               stopReason |-> "stop"] >>
      [] item.type = "function_call_output" ->
           << [role |-> "toolResult", toolCallId |-> item.call_id,
               toolName |-> << >>, content |-> << TextPart(item.output) >>,
               isError |-> FALSE] >>
      [] OTHER -> << >>

ResponsesSystemPartsOf(item) ==
    IF ItemKept(item) /\ item.role \in {"system", "developer"}
    THEN << ItemText(item) >> ELSE << >>

ResponsesImagesOf(item) ==
    IF ItemKept(item) /\ item.role = "user" THEN extractImages(item.content)
    ELSE << >>

\* buildContext(input, instructions) of the responses handler.
ResponsesBuildContext(in, instructions) ==
    LET messages == IF in.is = "string"
                    THEN << [role |-> "user", content |-> in.text] >>
                    ELSE FlatMap(ResponsesTurnsOf, in.items)
        systemParts == (IF Truthy(instructions) THEN << instructions >> ELSE << >>)
                       \o (IF in.is = "string" THEN << >>
                           ELSE FlatMap(ResponsesSystemPartsOf, in.items))
    IN  [context |->
            [systemPrompt |-> SystemPrompt(systemParts),
             messages |-> IF Len(messages) = 0 THEN << EmptyUserTurn >>
                          ELSE messages],
         images |-> IF in.is = "string" THEN << >>
                    ELSE FlatMap(ResponsesImagesOf, in.items)]

(***************************************************************************)
(* convertToolsToClientTools of the gateway forwarder.  A JavaScript value *)
(* carries its kind; an object carries its properties.                     *)
(***************************************************************************)
MaxTools == 2         \* entries of a tools array

JNull == [kind |-> "null"]
JStr(t) == [kind |-> "string", text |-> t]
JNum(n) == [kind |-> "number", number |-> n]
JArr(xs) == [kind |-> "array", items |-> xs]
JObj(props) == [kind |-> "object", props |-> props]
JBool(b) == [kind |-> "boolean", value |-> b]

\* typeof value === "object" && value !== null && !Array.isArray(value)
isPlainObject(value) == value.kind = "object"

\* value[key], undefined when the property is absent.
Prop(value, key) ==
    IF key \in DOMAIN value.props THEN value.props[key] ELSE [kind |-> "undefined"]

\* typeof value === "string"
IsString(value) == value.kind = "string"

\* Mutant of Sanitized: the copy has no type field.
SanitizedUntyped(fn) ==
    JObj([function |->
             JObj([name |-> Prop(fn, "name")]
                  @@ (IF IsString(Prop(fn, "description"))
                      THEN [description |-> Prop(fn, "description")]
                      ELSE EmptyObject)
                  @@ (IF isPlainObject(Prop(fn, "parameters"))
                      THEN [parameters |-> Prop(fn, "parameters")]
                      ELSE EmptyObject))])

\* The sanitized copy of a tool that passed validation.
Sanitized(fn) ==
    JObj([type |-> JStr("function"),
          function |->
             JObj([name |-> Prop(fn, "name")]
                  @@ (IF IsString(Prop(fn, "description"))
                      THEN [description |-> Prop(fn, "description")]
                      ELSE EmptyObject)
                  @@ (IF isPlainObject(Prop(fn, "parameters"))
                      THEN [parameters |-> Prop(fn, "parameters")]
                      ELSE EmptyObject))])

\* The validation of one entry of tools.
ValidTool(tool) ==
    /\ isPlainObject(tool)
    /\ Prop(tool, "type") = JStr("function")
    /\ isPlainObject(Prop(tool, "function"))
    /\ IsString(Prop(Prop(tool, "function"), "name"))
    /\ Prop(Prop(tool, "function"), "name").text # ""

\* Mutant of SanitizedOrSkipped: the function object is passed through.
SanitizedOrSkippedByReference(tool) ==
    IF ValidTool(tool)
    THEN << JObj([type |-> JStr("function"), function |-> Prop(tool, "function")]) >>
    ELSE << >>

\* One iteration of the loop: push the sanitized tool or continue.
SanitizedOrSkipped(tool) ==
    IF ValidTool(tool) THEN << Sanitized(Prop(tool, "function")) >> ELSE << >>

convertToolsToClientTools(tools) == FlatMap(SanitizedOrSkipped, tools)

\* { ...(body as Record<string, unknown>) }: the own properties of an
\* object; null and numbers have none.
Spread(value) == IF value.kind = "object" THEN value.props ELSE EmptyObject

\* Mutant of ForwardBody: stream is set only when the body has none.
ForwardBodyKeepsStream(body) ==
    LET clone == Spread(body)
    IN  JObj((IF "tools" \in DOMAIN clone /\ clone.tools.kind = "array"
              THEN [tools |-> JArr(convertToolsToClientTools(clone.tools.items))]
              ELSE EmptyObject)
             @@ clone @@ [stream |-> JBool(FALSE)])

\* The forwardBody the gateway forwarder hands to forwardToOpenClaw: a
\* clone of the body with stream = false and, if tools is an array, tools
\* replaced by convertToolsToClientTools(tools).
ForwardBody(body) ==
    LET clone == Spread(body)
    IN  JObj([stream |-> JBool(FALSE)]
             @@ (IF "tools" \in DOMAIN clone /\ clone.tools.kind = "array"
                 THEN [tools |-> JArr(convertToolsToClientTools(clone.tools.items))]
                 ELSE EmptyObject)
             @@ clone)

\* The objects of one call of the gateway forwarder: the body object the
\* caller passed and the object the spread allocates, with the object the
\* local forwardBody refers to.
CallerHeap(body) ==
    [objects |-> [body |-> body, clone |-> JNull], forwardBody |-> "none"]

\* Mutant of Clone: forwardBody refers to the caller's object.
CloneByReference(heap) ==
    IF heap.objects.body.kind = "object"
    THEN [heap EXCEPT !.forwardBody = "body"]
    ELSE [heap EXCEPT !.objects.clone = JObj(Spread(heap.objects.body)),
                      !.forwardBody = "clone"]

\* const forwardBody = { ...body }: a new object with the body's own
\* properties.
Clone(heap) ==
    [heap EXCEPT !.objects.clone = JObj(Spread(heap.objects.body)),
                 !.forwardBody = "clone"]

\* forwardBody[key] = value: a write to the object forwardBody refers to.
Assign(heap, key, value) ==
    [heap EXCEPT !.objects[heap.forwardBody] = JObj((key :> value) @@ @.props)]

\* forwardBody, read through the reference.
ForwardBodyOf(heap) == heap.objects[heap.forwardBody]

\* The statements of the gateway forwarder before its call of
\* forwardToOpenClaw, as writes to the objects.
GatewayHeap(body) ==
    LET cloned == Clone(CallerHeap(body))
        unstreamed == Assign(cloned, "stream", JBool(FALSE))
        tools == ForwardBodyOf(unstreamed).props
    IN  IF "tools" \in DOMAIN tools /\ tools.tools.kind = "array"
        THEN Assign(unstreamed, "tools",
                    JArr(convertToolsToClientTools(tools.tools.items)))
        ELSE unstreamed

(***************************************************************************)
(* Request bodies and backend results the translator functions are applied *)
(* to.                                                                     *)
(***************************************************************************)
RECURSIVE ListsUpTo(_, _)
\* The lists of at most n elements of a set.
ListsUpTo(S, n) ==
    IF n = 0 THEN { << >> }
    ELSE LET shorter == ListsUpTo(S, n - 1)
         IN  shorter \cup { Append(l, x) : l \in shorter, x \in S }

DataPng == [scheme |-> "data", mediaType |-> "image/png", encoding |-> "base64",
            data |-> "QUJD"]
DataText == [scheme |-> "data", mediaType |-> "text/plain", encoding |-> "base64",
             data |-> "QUJD"]
RemotePng == [scheme |-> "https", mediaType |-> "image/png", encoding |-> "none",
              data |-> ""]

ChatText(t) == [type |-> "text", text |-> t]
ChatImage(url) == [type |-> "image_url", image_url |-> [url |-> url]]

ChatToolCall(i, args) ==
    [id |-> i, type |-> "function", function |-> [name |-> "f", arguments |-> args]]

ChatAssistant(content, calls) ==
    [role |-> "assistant", content |-> content, tool_calls |-> calls]

\* Assistant messages that carry text only.
ChatTextOnlyAssistants ==
    { ChatAssistant(c, UndefinedList) :
        c \in { Null, Undefined, << >>, <<"a">>, <<" ", "a", " ">> } }

ChatMessages ==
    { [role |-> "system", content |-> Str(<<"a">>)],
      [role |-> "system", content |-> Str(<<"b">>)],
      [role |-> "developer", content |-> Str(<<"a">>)],
      [role |-> "user", content |-> Str(<<"a">>)],
      [role |-> "user", content |-> Str(<< >>)],
      [role |-> "user", content |-> Arr(<< ChatText(<<"a">>), ChatText(<<"b">>) >>)],
      [role |-> "user", content |-> Arr(<< ChatImage(DataPng) >>)],
      [role |-> "user",
       content |-> Arr(<< ChatText(<<"a">>), ChatImage(DataPng), ChatImage(RemotePng),
                          ChatImage(DataText) >>)],
      ChatAssistant(Null, << ChatToolCall("c1", << "{", " ", "}" >>) >>),
      ChatAssistant(<<"a">>, << ChatToolCall("c1", << "{" >>),
                                ChatToolCall("c2", << "{", "}" >>) >>),
      ChatAssistant(<<"a">>, << >>),
      [role |-> "tool", content |-> <<"a">>, tool_call_id |-> "c1"] }
    \cup ChatTextOnlyAssistants

ChatToolDefinitions ==
    { UndefinedList, << >>,
      << [type |-> "function",
          function |-> [name |-> "f", description |-> Undefined,
                        parameters |-> UndefinedObject]],
         [type |-> "function",
          function |-> [name |-> "g", description |-> <<"d">>,
                        parameters |-> [type |-> "object"]]] >> }

InputText(t) == [type |-> "input_text", text |-> t]
OutputText(t) == [type |-> "output_text", text |-> t]
InputImageBase64 ==
    [type |-> "input_image",
     source |-> [type |-> "base64", data |-> "QUJD", media_type |-> "image/png"]]
InputImageUrl ==
    [type |-> "input_image", source |-> [type |-> "url", url |-> RemotePng]]

MessageItem(role, content) == [type |-> "message", role |-> role, content |-> content]

\* Assistant message items: a string, one part, several parts.
ResponsesAssistantItems ==
    { MessageItem("assistant", c) :
        c \in { Str(<< >>), Str(<<"a">>), Str(<<" ", "a", " ">>),
                Arr(<< OutputText(<<"a">>) >>),
                Arr(<< OutputText(<<"a">>), OutputText(<<"b">>) >>) } }

ResponsesItems ==
    { MessageItem("system", Str(<<"a">>)),
      MessageItem("developer", Str(<<"b", " ">>)),
      MessageItem("system", Str(<<" ">>)),
      MessageItem("user", Str(<<"a">>)),
      MessageItem("user", Str(<< >>)),
      MessageItem("user", Arr(<< InputText(<<"a">>), InputText(<< >>),
                                 InputText(<<"b">>) >>)),
      MessageItem("user", Arr(<< InputText(<<"a">>), InputImageBase64,
                                 InputImageUrl >>)),
      MessageItem("user", Arr(<< InputImageBase64 >>)),
      [type |-> "function_call_output", call_id |-> "c1", output |-> <<"a">>],
      [type |-> "reasoning"] }
    \cup ResponsesAssistantItems

Instructions == { Undefined, << >>, <<"a">> }

\* Results of completeSimple for one-shot rendering.
RenderedResults ==
    CompleteResults
    \cup { [content |-> << TextPart(t) >>, stopReason |-> r, usage |-> u] :
              t \in { << >>, <<"4">> }, r \in {"stop", "length"},
              u \in { [input |-> 5, output |-> 1, totalTokens |-> 6],
                      [input |-> 5, output |-> 1, totalTokens |-> 9] } }
    \cup { [content |-> << ToolCallPart("c2", "f", << >>), TextPart(<<"a">>),
                          ToolCallPart("c1", "f", <<"a">>) >>,
            stopReason |-> r,
            usage |-> [input |-> 5, output |-> 1, totalTokens |-> 6]] :
              r \in {"toolUse", "length"} }

ToolEntries ==
    LET named(n) == JObj([name |-> n])
        tool(fn) == JObj([type |-> JStr("function"), function |-> fn])
    IN  { JNull, JStr("x"), JArr(<< >>),
          tool(named(JStr("f"))),
          tool(JObj([name |-> JStr("g"), description |-> JStr("d"),
                     parameters |-> JObj([type |-> JStr("object")])])),
          tool(JObj([name |-> JStr("f"), description |-> JNum(1),
                     parameters |-> JArr(<< >>), execute |-> JStr("x")])),
          tool(JObj([name |-> JStr("f"), parameters |-> JNull])),
          JObj([type |-> JStr("function"), function |-> named(JStr("f")),
                extra |-> JNum(1)]),
          JObj([type |-> JStr("other"), function |-> named(JStr("f"))]),
          JObj([function |-> named(JStr("f"))]),
          JObj([type |-> JStr("function")]),
          tool(JNull),
          tool(JArr(<< >>)),
          tool(named(JStr(""))),
          tool(named(JNum(1))),
          tool(JObj([description |-> JStr("d")])) }

\* Bodies of gateway requests: null, and objects with and without stream
\* and tools.
GatewayBodies ==
    { JNull }
    \cup { JObj([model |-> JStr("m")] @@ st @@ tl) :
             st \in { EmptyObject, [stream |-> JBool(TRUE)],
                      [stream |-> JBool(FALSE)], [stream |-> JStr("yes")] },
             tl \in { EmptyObject, [tools |-> JStr("x")], [tools |-> JNull] }
                    \cup { [tools |-> JArr(l)] : l \in ListsUpTo(ToolEntries, MaxTools) } }

\* The calls made: a function with its arguments.
Calls ==
    [fn : {"gateway.forwardBody"}, body : GatewayBodies] \cup
    [fn : {"gateway.handleIncomingRequest"}, id : {"r1"}, body : GatewayBodies] \cup
    [fn : {"chat.buildContext"}, messages : ListsUpTo(ChatMessages, MaxMessages),
     tools : {UndefinedList}]
    \cup [fn : {"chat.buildContext"}, messages : ListsUpTo(ChatMessages, 1),
          tools : ChatToolDefinitions]
    \cup [fn : {"responses.buildContext"},
          in : { Arr(l) : l \in ListsUpTo(ResponsesItems, MaxMessages) },
          instructions : {Undefined}]
    \cup [fn : {"responses.buildContext"},
          in : { Arr(l) : l \in ListsUpTo(ResponsesItems, 1) }
               \cup { Str(t) : t \in { << >>, <<"a">> } },
          instructions : Instructions]
    \cup [fn : {"handleNonStreaming"}, dialect : {"chat", "responses"},
          id : RequestIds, result : RenderedResults]
    \cup [fn : {"convertToolsToClientTools"}, tools : ListsUpTo(ToolEntries, MaxTools)]

(***************************************************************************)
(* One call of a translator function on a request body or backend result.  *)
(***************************************************************************)
Returned(v) == [returned |-> TRUE, value |-> v]

InitCalls ==
    /\ pc = [h \in Handlers |-> "idle"]
    /\ requestId = [h \in Handlers |-> "none"]
    /\ dialect = [h \in Handlers |-> "none"]
    /\ isStreaming = [h \in Handlers |-> FALSE]
    /\ timer = [h \in Handlers |-> "unset"]
    /\ aborted = [h \in Handlers |-> FALSE]
    /\ graceOver = [h \in Handlers |-> FALSE]
    /\ accumulatedText = [h \in Handlers |-> << >>]
    /\ usage = [h \in Handlers |-> InitialUsage("chat")]
    /\ completedToolCalls = [h \in Handlers |-> << >>]
    /\ currentToolCallIndex = [h \in Handlers |-> 0]
    /\ reported = [h \in Handlers |-> << >>]
    /\ partialArgs = [h \in Handlers |-> NoCall]
    /\ failure = [h \in Handlers |-> NoFailure]
    /\ eventsLeft = 0
    /\ slots = 0
    /\ sent = << >>
    /\ emitter = << >>
    /\ input \in Calls
    /\ output = NotReturned
    /\ NoSession

\* const { context, images } = buildContext(messages, tools)
CallChatBuildContext ==
    /\ input.fn = "chat.buildContext"
    /\ ~output.returned
    /\ output' = Returned(ChatBuildContext(input.messages, input.tools))
    /\ UNCHANGED << input, handlerVars, sessionVars >>

\* const { context, images } = buildContext(input, instructions)
CallResponsesBuildContext ==
    /\ input.fn = "responses.buildContext"
    /\ ~output.returned
    /\ output' = Returned(ResponsesBuildContext(input.in, input.instructions))
    /\ UNCHANGED << input, handlerVars, sessionVars >>

\* handleNonStreaming once completeSimple has returned input.result: the
\* frames it sends.
CallHandleNonStreaming ==
    /\ input.fn = "handleNonStreaming"
    /\ ~output.returned
    /\ output' = Returned(NonStreamingFrames(input.dialect, input.id, input.result))
    /\ UNCHANGED << input, handlerVars, sessionVars >>

CallConvertTools ==
    /\ input.fn = "convertToolsToClientTools"
    /\ ~output.returned
    /\ output' = Returned(convertToolsToClientTools(input.tools))
    /\ UNCHANGED << input, handlerVars, sessionVars >>

\* convertToolsToClientTools applied to the list it returned.
CallConvertToolsAgain ==
    /\ input.fn = "convertToolsToClientTools"
    /\ output.returned
    /\ "again" \notin DOMAIN output
    /\ output' = output @@ [again |-> convertToolsToClientTools(output.value)]
    /\ UNCHANGED << input, handlerVars, sessionVars >>

\* The gateway forwarder up to its call of forwardToOpenClaw.
CallForwardBody ==
    /\ input.fn = "gateway.forwardBody"
    /\ ~output.returned
    /\ output' = Returned(ForwardBody(input.body))
    /\ UNCHANGED << input, handlerVars, sessionVars >>

\* The gateway forwarder from its entry to its await of forwardToOpenClaw.
CallGatewayHandler ==
    /\ input.fn = "gateway.handleIncomingRequest"
    /\ output = NotReturned
    /\ output' = [returned |-> FALSE, heap |-> GatewayHeap(input.body)]
    /\ UNCHANGED << input, handlerVars, sessionVars >>

\* forwardToOpenClaw resolved: the response frame is sent and the handler
\* returns.
AwaitedForwardResolves(response) ==
    /\ input.fn = "gateway.handleIncomingRequest"
    /\ ~output.returned
    /\ output # NotReturned
    /\ output' = Returned([heap |-> output.heap,
                           frame |-> [type |-> "response", id |-> input.id,
                                      body |-> response]])
    /\ UNCHANGED << input, handlerVars, sessionVars >>

\* forwardToOpenClaw rejected: the catch sends the error frame and the
\* handler returns.
AwaitedForwardRejects(err) ==
    /\ input.fn = "gateway.handleIncomingRequest"
    /\ ~output.returned
    /\ output # NotReturned
    /\ output' = Returned([heap |-> output.heap,
                           frame |-> [type |-> "error", id |-> input.id,
                                      code |-> "plugin_error",
                                      message |-> ErrorText(err)]])
    /\ UNCHANGED << input, handlerVars, sessionVars >>

\* The request was a single assistant message carrying text only.
AssistantTextOnly ==
    \/ /\ input.fn = "chat.buildContext"
       /\ Len(input.messages) = 1
       /\ input.messages[1] \in ChatTextOnlyAssistants
    \/ /\ input.fn = "responses.buildContext"
       /\ input.in.is = "array"
       /\ Len(input.in.items) = 1
       /\ input.in.items[1] \in ResponsesAssistantItems

\* No assistant turn to render.
NoTurn == << "no turn" >>

\* The text the dialect's non-streaming output builder gives for a canonical
\* assistant turn handed back as the backend's result.
RenderedText(fn, turn) ==
    LET result == [content |-> turn.content, stopReason |-> turn.stopReason,
                   usage |-> turn.usage]
    IN  IF turn.role # "assistant" THEN NoTurn
        ELSE IF fn = "chat.buildContext"
        THEN ChatCompletionBody(result).choices[1].message.content
        ELSE ResponsesBody(result).output[1].content[1].text

\* The canonical assistant turn goes back through the output builder.
RenderAssistantTurn ==
    /\ AssistantTextOnly
    /\ output.returned
    /\ "rendered" \notin DOMAIN output
    /\ output' = output @@
          [rendered |-> RenderedText(input.fn, output.value.context.messages[1])]
    /\ UNCHANGED << input, handlerVars, sessionVars >>

NextCalls ==
    \/ CallChatBuildContext
    \/ CallResponsesBuildContext
    \/ CallHandleNonStreaming
    \/ CallConvertTools
    \/ CallConvertToolsAgain
    \/ CallForwardBody
    \/ CallGatewayHandler
    \/ \E response \in GatewayResponses : AwaitedForwardResolves(response)
    \/ \E err \in Exceptions : AwaitedForwardRejects(err)
    \/ RenderAssistantTurn

SpecCalls == InitCalls /\ [][NextCalls]_vars

\* The request yields no turn: it has no user, assistant or tool message
\* (chat); no user or assistant message item and no function_call_output
\* item (responses).
YieldsNoTurn ==
    IF input.fn = "chat.buildContext"
    THEN \A i \in 1..Len(input.messages) :
            input.messages[i].role \in {"system", "developer"}
    ELSE /\ input.in.is = "array"
         /\ \A i \in 1..Len(input.in.items) :
               \/ input.in.items[i].type = "reasoning"
               \/ /\ input.in.items[i].type = "message"
                  /\ input.in.items[i].role \in {"system", "developer"}

BuiltContext ==
    /\ input.fn \in {"chat.buildContext", "responses.buildContext"}
    /\ output.returned

\* C11: in both dialects buildContext returns a conversation of at least
\* one turn for every message / item list, and for a request that yields no
\* turn the conversation is exactly one user turn with empty content.
C11_AtLeastOneTurn ==
    BuiltContext =>
        /\ Len(output.value.context.messages) >= 1
        /\ YieldsNoTurn => output.value.context.messages = << EmptyUserTurn >>

\* A Responses request of two items, a system message and a reasoning item,
\* for which the empty user turn was substituted.
C11_Witness ==
    /\ BuiltContext
    /\ input.fn = "responses.buildContext"
    /\ input.in.is = "array"
    /\ Len(input.in.items) = 2
    /\ input.in.items[1].type = "message"
    /\ input.in.items[2].type = "reasoning"
    /\ YieldsNoTurn
    /\ output.value.context.messages = << EmptyUserTurn >>

\* The texts of the parts of an array content.
PartTexts(content) == [i \in 1..Len(content.items) |-> content.items[i].text]

\* The assistant text of the request, when it has one.  For a text given
\* as several parts both the concatenation and the newline-joined text are
\* taken as the original.
OriginalTexts ==
    IF input.fn = "chat.buildContext"
    THEN { input.messages[1].content } \ { Null, Undefined }
    ELSE LET content == input.in.items[1].content
         IN  IF content.is = "string" THEN { content.text }
             ELSE { Concat(PartTexts(content)), Join(PartTexts(content), << "\n" >>) }

RoundTripDone == AssistantTextOnly /\ output.returned /\ "rendered" \in DOMAIN output

\* C12 (as stated): for every assistant text t, building the context from
\* the turn and rendering the canonical turn through the same dialect's
\* non-streaming output builder gives a text content identical to t.
C12_RoundTripOriginal ==
    (RoundTripDone /\ OriginalTexts # {}) => output.rendered \in OriginalTexts

\* C12 (amended): the round trip of a text-only assistant turn gives, in the
\* chat dialect, t itself when t is not empty and null content when t is
\* empty, null or absent; in the Responses dialect, t (a string, or the
\* parts joined by newlines) with leading and trailing whitespace removed,
\* and no assistant turn at all when nothing is left.
C12_RoundTrip ==
    RoundTripDone =>
        IF input.fn = "chat.buildContext"
        THEN LET t == input.messages[1].content
             IN  output.rendered = (IF t \in { << >>, Null, Undefined } THEN Null ELSE t)
        ELSE LET content == input.in.items[1].content
                 t == Trim(IF content.is = "string" THEN content.text
                           ELSE Join(PartTexts(content), << "\n" >>))
             IN  output.rendered = (IF t = << >> THEN NoTurn ELSE t)

\* The round trip of the Responses assistant text " a ", which comes back
\* as "a".
C12_Witness ==
    /\ RoundTripDone
    /\ input.fn = "responses.buildContext"
    /\ input.in.items[1].content = Str(<< " ", "a", " " >>)
    /\ output.rendered = << "a" >>

\* A non-streaming chat call whose backend returned one text part only.
TextOnlyChatResult ==
    /\ input.fn = "handleNonStreaming"
    /\ input.dialect = "chat"
    /\ Len(input.result.content) = 1
    /\ input.result.content[1].type = "text"
    /\ output.returned

\* C13 (as stated): for a non-streaming chat request whose backend returns
\* only text t with usage input i and output o, the one response frame has
\* message {role assistant, content t}, finish_reason stop and usage
\* {prompt_tokens i, completion_tokens o, total_tokens i + o}.
C13_TextResponseOriginal ==
    TextOnlyChatResult =>
        /\ Len(output.value) = 1
        /\ output.value[1].type = "response"
        /\ LET body == output.value[1].body
               u == input.result.usage
           IN  /\ body.choices[1].message =
                     [role |-> "assistant", content |-> input.result.content[1].text]
               /\ body.choices[1].finish_reason = "stop"
               /\ body.usage = [prompt_tokens |-> u.input,
                                completion_tokens |-> u.output,
                                total_tokens |-> u.input + u.output]

\* C13 (amended): the one response frame has message {role assistant,
\* content t}, with null content when t is empty; finish_reason length when
\* the backend's stop reason is length and stop otherwise; and usage
\* {prompt_tokens i, completion_tokens o, total_tokens n}, n being the
\* totalTokens the backend reported.
C13_TextResponse ==
    TextOnlyChatResult =>
        /\ Len(output.value) = 1
        /\ output.value[1].type = "response"
        /\ output.value[1].id = input.id
        /\ LET body == output.value[1].body
               t == input.result.content[1].text
               u == input.result.usage
           IN  /\ body.choices[1].message =
                     [role |-> "assistant", content |-> IF t = << >> THEN Null ELSE t]
               /\ body.choices[1].finish_reason =
                     (IF input.result.stopReason = "length" THEN "length" ELSE "stop")
               /\ body.usage = [prompt_tokens |-> u.input,
                                completion_tokens |-> u.output,
                                total_tokens |-> u.totalTokens]

\* Text "4" with usage 5 and 1 and a reported total of 9.
C13_Witness ==
    /\ TextOnlyChatResult
    /\ input.result.content[1].text = << "4" >>
    /\ input.result.usage = [input |-> 5, output |-> 1, totalTokens |-> 9]
    /\ output.value[1].body.usage.total_tokens = 9

ConvertedTools == input.fn = "convertToolsToClientTools" /\ output.returned

\* An entry the claim keeps: a plain object with type "function" and a
\* function object whose name is a non-empty string.
Kept(tool) ==
    /\ tool.kind = "object"
    /\ "type" \in DOMAIN tool.props
    /\ tool.props.type = [kind |-> "string", text |-> "function"]
    /\ "function" \in DOMAIN tool.props
    /\ tool.props.function.kind = "object"
    /\ "name" \in DOMAIN tool.props.function.props
    /\ tool.props.function.props.name.kind = "string"
    /\ tool.props.function.props.name.text # ""

\* The positions of the kept entries of the input.
KeptPositions == { i \in 1..Len(input.tools) : Kept(input.tools[i]) }

\* The position in the input of the k-th kept entry.
KeptPosition(k) ==
    CHOOSE i \in KeptPositions :
        Cardinality({ j \in KeptPositions : j <= i }) = k

\* The optional field of a rebuilt function is present exactly when the
\* original has it with the wanted kind, and is then the original's.
CopiedIf(rebuilt, original, field, kind) ==
    IF field \in DOMAIN original.props /\ original.props[field].kind = kind
    THEN field \in DOMAIN rebuilt.props /\ rebuilt.props[field] = original.props[field]
    ELSE field \notin DOMAIN rebuilt.props

\* C20: convertToolsToClientTools returns one entry per kept entry of its
\* input, in input order; each is an object with exactly the fields type
\* ("function") and function, the function carrying the original's name,
\* its description only if that is a string, its parameters only if that is
\* a plain object, and no other field.
C20_OnlySanitizedTools ==
    ConvertedTools =>
        /\ Len(output.value) = Cardinality(KeptPositions)
        /\ \A k \in 1..Len(output.value) :
              LET original == input.tools[KeptPosition(k)].props.function
                  rebuilt == output.value[k]
              IN  /\ rebuilt.kind = "object"
                  /\ DOMAIN rebuilt.props = {"type", "function"}
                  /\ rebuilt.props.type = [kind |-> "string", text |-> "function"]
                  /\ rebuilt.props.function.kind = "object"
                  /\ DOMAIN rebuilt.props.function.props
                        \subseteq {"name", "description", "parameters"}
                  /\ rebuilt.props.function.props.name = original.props.name
                  /\ CopiedIf(rebuilt.props.function, original, "description", "string")
                  /\ CopiedIf(rebuilt.props.function, original, "parameters", "object")

\* A list of a skipped entry and a tool with a numeric description, an
\* array as parameters and an extra field, of which only the name is kept.
C20_Witness ==
    /\ ConvertedTools
    /\ Len(input.tools) = 2
    /\ ~Kept(input.tools[1])
    /\ Kept(input.tools[2])
    /\ "execute" \in DOMAIN input.tools[2].props.function.props
    /\ Len(output.value) = 1
    /\ DOMAIN output.value[1].props.function.props = {"name"}

(***************************************************************************)
(* The Session Manager (PluginClient of ws-client): the connection state   *)
(* machine of spec section 4.1.  startPlugin creates the client with the   *)
(* configured jwt, calls start() and hands out stop().                     *)
(***************************************************************************)
\* Network and caller events of one run.
MaxInbound == 4

\* SIXERR_PROTOCOL_VERSION
ProtocolVersion == 2

ConfiguredJwt == "jwt-0"
RefreshedJwts == {"jwt-1", "jwt-2"}
Timestamps == {1, 2}
SessionRequestIds == {"req-1", "req-2"}

\* The messages ServerMessageSchema accepts.
ServerMessages ==
    [type : {"auth_ok"}, pluginId : {"p-1"}, protocol : {ProtocolVersion}]
    \cup [type : {"auth_error"}, message : {"Invalid token"}]
    \cup [type : {"ping"}, ts : Timestamps]
    \cup [type : {"jwt_refresh"}, jwt : RefreshedJwts]
    \cup [type : {"request"}, id : SessionRequestIds]

\* Frames ServerMessageSchema rejects: unparseable text, unknown type.
MalformedFrames == {[malformed |-> "not json"], [type |-> "unknown"]}

\* ServerMessageSchema.safeParse(frame).success
ParsesAsServerMessage(frame) == frame \in ServerMessages

\* { type: "auth", jwt, protocol }
AuthFrame(credential) ==
    [type |-> "auth", jwt |-> credential, protocol |-> ProtocolVersion,
     socket |-> generation]

\* { type: "pong", ts }
PongFrame(ts) == [type |-> "pong", ts |-> ts, socket |-> generation]

\* The terminal frame of request id, written to the current socket.
TerminalFrame(id) == [type |-> "response", id |-> id, socket |-> generation]

\* client.start(): the first socket is being connected.
InitSession ==
    /\ pc = [h \in Handlers |-> "idle"]
    /\ requestId = [h \in Handlers |-> "none"]
    /\ dialect = [h \in Handlers |-> "none"]
    /\ isStreaming = [h \in Handlers |-> FALSE]
    /\ timer = [h \in Handlers |-> "unset"]
    /\ aborted = [h \in Handlers |-> FALSE]
    /\ graceOver = [h \in Handlers |-> FALSE]
    /\ accumulatedText = [h \in Handlers |-> << >>]
    /\ usage = [h \in Handlers |-> InitialUsage("chat")]
    /\ completedToolCalls = [h \in Handlers |-> << >>]
    /\ currentToolCallIndex = [h \in Handlers |-> 0]
    /\ reported = [h \in Handlers |-> << >>]
    /\ partialArgs = [h \in Handlers |-> NoCall]
    /\ failure = [h \in Handlers |-> NoFailure]
    /\ eventsLeft = 0
    /\ slots = 0
    /\ sent = << >>
    /\ emitter = << >>
    /\ NoCallMade
    /\ sessionState = "CONNECTING"
    /\ jwt = ConfiguredJwt
    /\ socket = "connecting"
    /\ generation = 1
    /\ backoffTimer = "idle"
    /\ attempts = 0
    /\ pending = {}
    /\ wire = << >>
    /\ inbox = << >>
    /\ stopped = FALSE
    /\ authFailed = FALSE
    /\ inboundLeft = MaxInbound

\* One network or caller event is used up.
Inbound ==
    /\ inboundLeft > 0
    /\ inboundLeft' = inboundLeft - 1

\* A frame arrives on the open socket of a running session.
Receiving == socket = "open" /\ sessionState \in {"AUTHENTICATING", "READY"}

\* Transition to RECONNECTING: the socket is dropped, the PendingRequests
\* are discarded, the backoff timer is armed.
ScheduleReconnectUnarmed ==
    /\ sessionState' = "RECONNECTING"
    /\ socket' = "closed"
    /\ pending' = {}
    /\ attempts' = attempts + 1
    /\ backoffTimer' = "idle"

ScheduleReconnect ==
    /\ sessionState' = "RECONNECTING"
    /\ socket' = "closed"
    /\ pending' = {}
    /\ attempts' = attempts + 1
    /\ backoffTimer' = "armed"

\* The socket opens: send the auth frame, wait for the broker's verdict.
SocketOpens ==
    /\ sessionState = "CONNECTING"
    /\ socket = "connecting"
    /\ socket' = "open"
    /\ sessionState' = "AUTHENTICATING"
    /\ wire' = Append(wire, AuthFrame(jwt))
    /\ UNCHANGED << jwt, generation, backoffTimer, attempts, pending, inbox,
                    stopped, authFailed, inboundLeft, handlerVars, callVars >>

\* The connection attempt fails.
ConnectFails ==
    /\ sessionState = "CONNECTING"
    /\ socket = "connecting"
    /\ Inbound
    /\ ScheduleReconnect
    /\ UNCHANGED << jwt, generation, wire, inbox, stopped, authFailed,
                    handlerVars, callVars >>

\* auth_ok while AUTHENTICATING.
ReceiveAuthOk ==
    \E frame \in ServerMessages :
        /\ frame.type = "auth_ok"
        /\ Receiving
        /\ sessionState = "AUTHENTICATING"
        /\ Inbound
        /\ inbox' = Append(inbox, frame)
        /\ sessionState' = "READY"
        /\ UNCHANGED << jwt, socket, generation, backoffTimer, attempts,
                        pending, wire, stopped, authFailed, handlerVars,
                        callVars >>

\* auth_error while AUTHENTICATING: fatal, no retry.
ReceiveAuthErrorRetries ==
    \E frame \in ServerMessages :
        /\ frame.type = "auth_error"
        /\ Receiving
        /\ sessionState = "AUTHENTICATING"
        /\ Inbound
        /\ inbox' = Append(inbox, frame)
        /\ authFailed' = TRUE
        /\ ScheduleReconnect
        /\ UNCHANGED << jwt, generation, wire, stopped, handlerVars,
                        callVars >>

ReceiveAuthError ==
    \E frame \in ServerMessages :
        /\ frame.type = "auth_error"
        /\ Receiving
        /\ sessionState = "AUTHENTICATING"
        /\ Inbound
        /\ inbox' = Append(inbox, frame)
        /\ authFailed' = TRUE
        /\ sessionState' = "CLOSED"
        /\ socket' = "closed"
        /\ pending' = {}
        /\ backoffTimer' = "idle"
        /\ UNCHANGED << jwt, generation, attempts, wire, stopped,
                        handlerVars, callVars >>

\* Any other message of the protocol while AUTHENTICATING is a protocol
\* violation, jwt_refresh excepted (it is accepted in AUTHENTICATING).
ReceiveUnexpectedIgnored ==
    \E frame \in ServerMessages :
        /\ frame.type \in {"ping", "request"}
        /\ Receiving
        /\ sessionState = "AUTHENTICATING"
        /\ Inbound
        /\ inbox' = Append(inbox, frame)
        /\ UNCHANGED << sessionState, jwt, socket, generation, backoffTimer,
                        attempts, pending, wire, stopped, authFailed,
                        handlerVars, callVars >>

ReceiveUnexpected ==
    \E frame \in ServerMessages :
        /\ frame.type \in {"ping", "request"}
        /\ Receiving
        /\ sessionState = "AUTHENTICATING"
        /\ Inbound
        /\ inbox' = Append(inbox, frame)
        /\ ScheduleReconnect
        /\ UNCHANGED << jwt, generation, wire, stopped, authFailed,
                        handlerVars, callVars >>

\* ping{ts} in READY: pong{ts} at once, whatever the requests are doing.
ReceivePingAfterRequests ==
    \E frame \in ServerMessages :
        /\ frame.type = "ping"
        /\ Receiving
        /\ sessionState = "READY"
        /\ Inbound
        /\ inbox' = Append(inbox, frame)
        /\ wire' = IF pending = {} THEN Append(wire, PongFrame(frame.ts))
                   ELSE wire
        /\ UNCHANGED << sessionState, jwt, socket, generation, backoffTimer,
                        attempts, pending, stopped, authFailed, handlerVars,
                        callVars >>

ReceivePing ==
    \E frame \in ServerMessages :
        /\ frame.type = "ping"
        /\ Receiving
        /\ sessionState = "READY"
        /\ Inbound
        /\ inbox' = Append(inbox, frame)
        /\ wire' = Append(wire, PongFrame(frame.ts))
        /\ UNCHANGED << sessionState, jwt, socket, generation, backoffTimer,
                        attempts, pending, stopped, authFailed, handlerVars,
                        callVars >>

\* jwt_refresh{jwt} in READY or AUTHENTICATING: swap the stored credential.
ReceiveJwtRefreshReauthenticates ==
    \E frame \in ServerMessages :
        /\ frame.type = "jwt_refresh"
        /\ Receiving
        /\ Inbound
        /\ inbox' = Append(inbox, frame)
        /\ jwt' = frame.jwt
        /\ sessionState' = "AUTHENTICATING"
        /\ wire' = Append(wire, AuthFrame(frame.jwt))
        /\ UNCHANGED << socket, generation, backoffTimer, attempts, pending,
                        stopped, authFailed, handlerVars, callVars >>

ReceiveJwtRefresh ==
    \E frame \in ServerMessages :
        /\ frame.type = "jwt_refresh"
        /\ Receiving
        /\ Inbound
        /\ inbox' = Append(inbox, frame)
        /\ jwt' = frame.jwt
        /\ UNCHANGED << sessionState, socket, generation, backoffTimer,
                        attempts, pending, wire, stopped, authFailed,
                        handlerVars, callVars >>

\* request{id, body} in READY: handed to the Request Dispatcher.  The broker
\* issues ids that are not in use.
ReceiveRequest ==
    \E frame \in ServerMessages :
        /\ frame.type = "request"
        /\ frame.id \notin pending
        /\ Receiving
        /\ sessionState = "READY"
        /\ Inbound
        /\ inbox' = Append(inbox, frame)
        /\ pending' = pending \cup {frame.id}
        /\ UNCHANGED << sessionState, jwt, socket, generation, backoffTimer,
                        attempts, wire, stopped, authFailed, handlerVars,
                        callVars >>

\* Mutant of ReceiveMalformed: a frame that fails validation drops the socket.
ReceiveMalformedReconnects ==
    \E frame \in MalformedFrames :
        /\ ~ParsesAsServerMessage(frame)
        /\ Receiving
        /\ Inbound
        /\ inbox' = Append(inbox, frame)
        /\ ScheduleReconnect
        /\ UNCHANGED << jwt, generation, wire, stopped, authFailed,
                        handlerVars, callVars >>

\* A frame that fails validation is logged and dropped.
ReceiveMalformed ==
    \E frame \in MalformedFrames :
        /\ ~ParsesAsServerMessage(frame)
        /\ Receiving
        /\ Inbound
        /\ inbox' = Append(inbox, frame)
        /\ UNCHANGED << sessionState, jwt, socket, generation, backoffTimer,
                        attempts, pending, wire, stopped, authFailed,
                        handlerVars, callVars >>

\* Mutant of SocketCloses: the PendingRequests survive the socket.
SocketClosesKeepsPending ==
    /\ Receiving
    /\ Inbound
    /\ sessionState' = "RECONNECTING"
    /\ socket' = "closed"
    /\ attempts' = attempts + 1
    /\ backoffTimer' = "armed"
    /\ UNCHANGED << jwt, generation, pending, wire, inbox, stopped, authFailed,
                    handlerVars, callVars >>

\* The socket closes or errors while the session is running.
SocketCloses ==
    /\ Receiving
    /\ Inbound
    /\ ScheduleReconnect
    /\ UNCHANGED << jwt, generation, wire, inbox, stopped, authFailed,
                    handlerVars, callVars >>

\* The backoff delay is over: connect a new socket.
BackoffElapses ==
    /\ sessionState = "RECONNECTING"
    /\ backoffTimer = "armed"
    /\ backoffTimer' = "idle"
    /\ sessionState' = "CONNECTING"
    /\ socket' = "connecting"
    /\ generation' = generation + 1
    /\ UNCHANGED << jwt, attempts, pending, wire, inbox, stopped, authFailed,
                    inboundLeft, handlerVars, callVars >>

\* READY has lasted longer than the threshold: backoff resets to the minimum.
ReadySustained ==
    /\ sessionState = "READY"
    /\ attempts > 0
    /\ attempts' = 0
    /\ UNCHANGED << sessionState, jwt, socket, generation, backoffTimer,
                    pending, wire, inbox, stopped, authFailed, inboundLeft,
                    handlerVars, callVars >>

\* A pending request emits its terminal frame.
RequestResponds ==
    \E id \in pending :
        /\ sessionState = "READY"
        /\ socket = "open"
        /\ wire' = Append(wire, TerminalFrame(id))
        /\ pending' = pending \ {id}
        /\ UNCHANGED << sessionState, jwt, socket, generation, backoffTimer,
                        attempts, inbox, stopped, authFailed, inboundLeft,
                        handlerVars, callVars >>

\* stop(): CLOSED, PendingRequests cancelled, socket closed, no reconnect.
StopKeepsPending ==
    /\ Inbound
    /\ stopped' = TRUE
    /\ sessionState' = "CLOSED"
    /\ socket' = "closed"
    /\ backoffTimer' = "idle"
    /\ UNCHANGED << jwt, generation, attempts, pending, wire, inbox,
                    authFailed, handlerVars, callVars >>

Stop ==
    /\ Inbound
    /\ stopped' = TRUE
    /\ sessionState' = "CLOSED"
    /\ socket' = "closed"
    /\ pending' = {}
    /\ backoffTimer' = "idle"
    /\ UNCHANGED << jwt, generation, attempts, wire, inbox, authFailed,
                    handlerVars, callVars >>

\* An open, message, close or error event of a socket, or a timer, that
\* arrives once the session is CLOSED: ignored.
LateSocketEvent ==
    /\ sessionState = "CLOSED"
    /\ Inbound
    /\ UNCHANGED << sessionState, jwt, socket, generation, backoffTimer,
                    attempts, pending, wire, inbox, stopped, authFailed,
                    handlerVars, callVars >>

\* auth_ok and auth_error are answers to auth: the broker sends neither to a
\* session that is READY.
NextSession ==
    \/ SocketOpens
    \/ ConnectFails
    \/ ReceiveAuthOk
    \/ ReceiveAuthError
    \/ ReceiveUnexpected
    \/ ReceivePing
    \/ ReceiveJwtRefresh
    \/ ReceiveRequest
    \/ ReceiveMalformed
    \/ SocketCloses
    \/ BackoffElapses
    \/ ReadySustained
    \/ RequestResponds
    \/ Stop
    \/ LateSocketEvent

SpecSession == InitSession /\ [][NextSession]_vars

\* Timers fire and a connection attempt that keeps being possible succeeds.
SpecSessionFair ==
    /\ InitSession
    /\ [][NextSession]_vars
    /\ WF_vars(BackoffElapses)
    /\ SF_vars(SocketOpens)

(***************************************************************************)
(* Claims about the session.                                               *)
(***************************************************************************)
\* The type of a frame; a frame that is not an object with a type has none.
FrameType(frame) == IF "type" \in DOMAIN frame THEN frame.type ELSE "none"

\* This step reads a frame from the socket.
ReceivesFrame == Len(inbox') = Len(inbox) + 1

\* The frame this step reads.
ReceivedFrame == inbox'[Len(inbox')]

\* This step writes exactly the frame f to the socket.
Writes(f) == wire' = Append(wire, f)

\* The positions of the frames of type t on the wire w.
FramesOfType(w, t) == {i \in DOMAIN w : w[i].type = t}

\* The sockets a run can create.
Sockets == 1..(MaxInbound + 1)

AuthErrorReceived == \E i \in DOMAIN inbox : FrameType(inbox[i]) = "auth_error"

\* C14: once auth_error was received (it is read only while AUTHENTICATING)
\* the session is CLOSED with its socket closed and no reconnect timer
\* armed, and it stays so: no later step changes the state, creates a
\* socket, counts a reconnect attempt or writes a frame.
C14_AuthErrorIsFatal ==
    /\ [](AuthErrorReceived =>
            /\ sessionState = "CLOSED"
            /\ socket = "closed"
            /\ backoffTimer = "idle")
    /\ [][/\ (ReceivesFrame /\ FrameType(ReceivedFrame) = "auth_error") =>
                (sessionState = "AUTHENTICATING" /\ sessionState' = "CLOSED"
                 /\ attempts' = attempts)
          /\ AuthErrorReceived =>
                (wire' = wire /\ generation' = generation
                 /\ attempts' = attempts)]_vars

\* auth_error came on the second socket, and later events were ignored.
C14_Witness ==
    /\ AuthErrorReceived
    /\ authFailed
    /\ generation = 2
    /\ Cardinality(FramesOfType(wire, "auth")) = 2
    /\ inboundLeft = 0
    /\ Len(inbox) < MaxInbound - 1

\* This step loses the socket of a session that carries on.
SocketLost ==
    /\ socket \in {"connecting", "open"}
    /\ socket' = "closed"
    /\ sessionState' # "CLOSED"

\* An auth frame was written to a socket created after socket g.
AuthSentAfter(g) ==
    \E i \in DOMAIN wire : wire[i].type = "auth" /\ wire[i].socket > g

\* C15: a step that loses the socket of a session that is not CLOSED (and is
\* not closed by that step) moves it to RECONNECTING with the backoff timer
\* armed, and, timers and the network being fair, a session that is
\* RECONNECTING on socket g is eventually stopped or has passed CONNECTING
\* and written an auth frame to a newer socket.
C15_ReconnectsAfterClose ==
    /\ [][SocketLost =>
            /\ sessionState # "CLOSED"
            /\ sessionState' = "RECONNECTING"
            /\ backoffTimer' = "armed"]_vars
    /\ [][(sessionState = "RECONNECTING" /\ sessionState' \notin {"RECONNECTING", "CLOSED"}) =>
            /\ sessionState' = "CONNECTING"
            /\ generation' = generation + 1]_vars
    /\ \A g \in Sockets :
           (sessionState = "RECONNECTING" /\ generation = g)
               ~> (stopped \/ AuthSentAfter(g))

\* A READY session lost its socket and authenticated again on the next one.
C15_Witness ==
    /\ ~stopped
    /\ generation = 2
    /\ sessionState = "READY"
    /\ Len(inbox) = 2
    /\ FrameType(inbox[1]) = "auth_ok"
    /\ FrameType(inbox[2]) = "auth_ok"
    /\ AuthSentAfter(1)

\* This step opens the socket.
OpensSocket == socket = "connecting" /\ socket' = "open"

\* The auth frames written to socket g.
AuthFramesOn(g) ==
    {i \in DOMAIN wire : wire[i].type = "auth" /\ wire[i].socket = g}

\* Each socket that was opened got one auth frame, with the credential
\* stored when it opened and the protocol version; no other socket got one.
OneAuthPerOpen ==
    /\ [][IF OpensSocket
          THEN Writes([type |-> "auth", jwt |-> jwt,
                       protocol |-> ProtocolVersion, socket |-> generation])
          ELSE FramesOfType(wire', "auth") = FramesOfType(wire, "auth")]_vars
    /\ [](\A g \in Sockets :
            /\ Cardinality(AuthFramesOn(g)) <= 1
            /\ (g = generation /\ socket = "open") =>
                   Cardinality(AuthFramesOn(g)) = 1)

\* auth_ok read while AUTHENTICATING moves the session to READY.
AuthOkMakesReady ==
    [][(ReceivesFrame /\ sessionState = "AUTHENTICATING"
        /\ FrameType(ReceivedFrame) = "auth_ok") =>
            sessionState' = "READY"]_vars

PingRead ==
    /\ ReceivesFrame
    /\ sessionState = "READY"
    /\ FrameType(ReceivedFrame) = "ping"

\* C17: the step that reads ping{ts} in READY writes exactly one frame, the
\* pong with the same ts, whatever requests are pending, and leaves those
\* requests as they are; no other step writes a pong.
C17_PongForEveryPing ==
    [][IF PingRead
       THEN /\ Writes([type |-> "pong", ts |-> ReceivedFrame.ts,
                       socket |-> generation])
            /\ pending' = pending
            /\ sessionState' = "READY"
       ELSE FramesOfType(wire', "pong") = FramesOfType(wire, "pong")]_vars

\* A ping was answered at once while both requests were pending and
\* unanswered.
C17_Witness ==
    /\ pending = SessionRequestIds
    /\ FramesOfType(wire, "response") = {}
    /\ Len(inbox) = 4
    /\ FrameType(inbox[4]) = "ping"
    /\ Len(wire) = 2
    /\ wire[2].type = "pong"
    /\ wire[2].ts = inbox[4].ts

\* The credential of the latest jwt_refresh among the frames read, or the
\* configured one when there was none.
LatestJwt(frames) ==
    LET refreshes == {i \in DOMAIN frames : FrameType(frames[i]) = "jwt_refresh"}
        last == CHOOSE i \in refreshes : \A j \in refreshes : j <= i
    IN  IF refreshes = {} THEN ConfiguredJwt ELSE frames[last].jwt

\* C18: the step that reads jwt_refresh{jwt}, in READY or AUTHENTICATING,
\* stores that jwt and changes nothing else of the session (state, socket,
\* pending requests, frames written, backoff), and the auth frame written
\* when a socket opens carries the latest refreshed jwt.
C18_RefreshSwapsCredential ==
    /\ [][(ReceivesFrame /\ FrameType(ReceivedFrame) = "jwt_refresh") =>
            /\ sessionState \in {"READY", "AUTHENTICATING"}
            /\ jwt' = ReceivedFrame.jwt
            /\ UNCHANGED << sessionState, socket, generation, pending, wire,
                            backoffTimer, attempts, stopped >>]_vars
    /\ [][OpensSocket =>
            /\ Len(wire') = Len(wire) + 1
            /\ wire'[Len(wire')].type = "auth"
            /\ wire'[Len(wire')].jwt = LatestJwt(inbox)]_vars

\* Refreshed twice while READY; the socket was lost and the next one
\* authenticated with the second refreshed jwt.
C18_Witness ==
    /\ Len(inbox) = 3
    /\ FrameType(inbox[1]) = "auth_ok"
    /\ FrameType(inbox[2]) = "jwt_refresh" /\ inbox[2].jwt = "jwt-1"
    /\ FrameType(inbox[3]) = "jwt_refresh" /\ inbox[3].jwt = "jwt-2"
    /\ generation = 2
    /\ sessionState = "AUTHENTICATING"
    /\ Len(wire) = 2
    /\ wire[1].type = "auth" /\ wire[1].jwt = ConfiguredJwt
    /\ wire[2].type = "auth" /\ wire[2].jwt = "jwt-2" /\ wire[2].socket = 2

\* C19: once stop() was called the session is CLOSED, no request is
\* pending, the socket is closed and no reconnect timer is armed; the call
\* itself writes no frame; and no later step (a second stop(), a late socket
\* or timer event) changes the session, creates a socket or writes a frame.
C19_StopIsFinal ==
    /\ [](stopped =>
            /\ sessionState = "CLOSED"
            /\ pending = {}
            /\ socket = "closed"
            /\ backoffTimer = "idle")
    /\ [][(~stopped /\ stopped') => wire' = wire]_vars
    /\ [][stopped =>
            UNCHANGED << sessionState, socket, pending, backoffTimer, wire,
                         generation, attempts, jwt, stopped >>]_vars

\* stop() was called on the first socket with a request pending and
\* unanswered, and two further events (stop() again, late socket events)
\* followed.
C19_Witness ==
    /\ stopped
    /\ generation = 1
    /\ attempts = 0
    /\ Len(inbox) = 2
    /\ FrameType(inbox[1]) = "auth_ok"
    /\ FrameType(inbox[2]) = "request"
    /\ FramesOfType(wire, "response") = {}
    /\ inboundLeft = 0

(***************************************************************************)
(* Claims about the gateway forwarder.                                     *)
(***************************************************************************)
\* Every property of a forwarded tool is one the sanitized shape allows.
OnlySanitizedFields(tool) ==
    /\ tool.kind = "object"
    /\ DOMAIN tool.props = {"type", "function"}
    /\ tool.props.function.kind = "object"
    /\ DOMAIN tool.props.function.props \subseteq {"name", "description", "parameters"}

\* C21: the body handed to forwardToOpenClaw has stream false whatever the
\* original stream was; when the original tools is an array the forwarded
\* tools is convertToolsToClientTools of it, each entry with sanitized
\* fields only; every other property is the original's.
C21_ForwardedBody ==
    (input.fn = "gateway.forwardBody" /\ output.returned) =>
        LET original == Spread(input.body)
            forwarded == output.value.props
        IN  /\ forwarded.stream = JBool(FALSE)
            /\ DOMAIN forwarded = DOMAIN original \cup {"stream"}
            /\ \A key \in DOMAIN original \ {"stream", "tools"} :
                   forwarded[key] = original[key]
            /\ "tools" \in DOMAIN original =>
                 IF original.tools.kind = "array"
                 THEN /\ forwarded.tools =
                            JArr(convertToolsToClientTools(original.tools.items))
                      /\ \A i \in 1..Len(forwarded.tools.items) :
                            OnlySanitizedFields(forwarded.tools.items[i])
                 ELSE forwarded.tools = original.tools

\* A body with stream true and two tools, one of them with an extra field on
\* the function and one invalid, was forwarded with one sanitized tool.
C21_Witness ==
    /\ input.fn = "gateway.forwardBody"
    /\ output.returned
    /\ input.body.kind = "object"
    /\ "stream" \in DOMAIN input.body.props
    /\ input.body.props.stream = JBool(TRUE)
    /\ "tools" \in DOMAIN input.body.props
    /\ input.body.props.tools.kind = "array"
    /\ Len(input.body.props.tools.items) = 2
    /\ input.body.props.tools.items[1] = JNull
    /\ ValidTool(input.body.props.tools.items[2])
    /\ "execute" \in DOMAIN input.body.props.tools.items[2].props.function.props
    /\ Len(output.value.props.tools.items) = 1

(***************************************************************************)
(* forwardToOpenClaw: one HTTP POST to the gateway, as a promise settled   *)
(* by the listeners of the request (response end, timeout, error).         *)
(***************************************************************************)
\* config.timeoutMs ?? 120_000
DefaultTimeoutMs == 120000

\* No request is being handled.
NoRequest ==
    /\ pc = [h \in Handlers |-> "idle"]
    /\ requestId = [h \in Handlers |-> "none"]
    /\ dialect = [h \in Handlers |-> "none"]
    /\ isStreaming = [h \in Handlers |-> FALSE]
    /\ timer = [h \in Handlers |-> "unset"]
    /\ aborted = [h \in Handlers |-> FALSE]
    /\ graceOver = [h \in Handlers |-> FALSE]
    /\ accumulatedText = [h \in Handlers |-> << >>]
    /\ usage = [h \in Handlers |-> InitialUsage("chat")]
    /\ completedToolCalls = [h \in Handlers |-> << >>]
    /\ currentToolCallIndex = [h \in Handlers |-> 0]
    /\ reported = [h \in Handlers |-> << >>]
    /\ partialArgs = [h \in Handlers |-> NoCall]
    /\ failure = [h \in Handlers |-> NoFailure]
    /\ eventsLeft = 0
    /\ slots = 0
    /\ sent = << >>
    /\ emitter = << >>

\* res.statusCode of the gateway's answers.
StatusCodes == {200, 204, 302, 399, 400, 404, 500}

\* Response bodies: JSON objects, HTML, nothing.
RawBodies == { << "{", "}" >>, << "{", " ", "}" >>, << "<", "html", ">" >>, << >> }

\* Errors of the connection, as the request's error event carries them.
ConnectionErrors == { [name |-> "Error", message |-> "connect ECONNREFUSED"],
                      [name |-> "Error", message |-> "socket hang up"] }

\* new Error("OpenClaw Gateway request timed out")
TimedOutError == [name |-> "Error", message |-> "OpenClaw Gateway request timed out"]

ForwardCalls ==
    [fn : {"forwardToOpenClaw"},
     timeoutMs : {[given |-> FALSE], [given |-> TRUE, ms |-> 100],
                  [given |-> TRUE, ms |-> 2000]},
     requestBody : {"body-1", "body-2"}]

Pending_ == [state |-> "pending"]
Resolved(v) == [state |-> "resolved", value |-> v]
Rejected(e) == [state |-> "rejected", reason |-> e]

\* resolve(v) / reject(e) of "new Promise((resolve, reject) => ...)": only
\* the first call settles the promise.
Settle(promise, outcome) ==
    IF promise.state = "pending" THEN outcome ELSE promise

\* The end listener of the response: parse, then check the status.
OnEnd(status, raw) ==
    IF ~ParsesAsJSON(raw)
    THEN Rejected([name |-> "Error",
                   message |-> "OpenClaw Gateway returned invalid JSON",
                   status |-> status, raw |-> raw])
    ELSE IF status >= 400
    THEN Rejected([name |-> "Error",
                   message |-> "OpenClaw Gateway error",
                   status |-> status, body |-> JSONstringify(JSONparse(raw))])
    ELSE Resolved(JSONparse(raw))

InitForward ==
    /\ NoRequest
    /\ NoSession
    /\ input \in ForwardCalls
    /\ output = NotReturned

\* forwardToOpenClaw(config, requestBody): the request is written and the
\* promise returned.
CallForwardToOpenClaw ==
    /\ input.fn = "forwardToOpenClaw"
    /\ ~output.returned
    /\ output' = [returned |-> TRUE,
                  promise |-> Pending_,
                  request |-> "open",
                  timeout |-> IF input.timeoutMs.given THEN input.timeoutMs.ms
                              ELSE DefaultTimeoutMs]
    /\ UNCHANGED << input, handlerVars, sessionVars >>

\* res.on("end"): the whole response has arrived.
ResponseEnds(status, raw) ==
    /\ output.returned
    /\ output.request = "open"
    /\ output' = [output EXCEPT !.request = "responded",
                                !.promise = Settle(@, OnEnd(status, raw))]
    /\ UNCHANGED << input, handlerVars, sessionVars >>

\* req.on("timeout"): req.destroy(new Error(...)); the error event follows.
RequestTimesOut ==
    /\ output.returned
    /\ output.request = "open"
    /\ output' = [output EXCEPT !.request = "destroyed"]
    /\ UNCHANGED << input, handlerVars, sessionVars >>

\* req.on("error"): a connection error, the error req.destroy was given, or
\* an error of the socket after the response has ended.
RequestErrors(err) ==
    /\ output.returned
    /\ output.request \in {"open", "destroyed", "responded"}
    /\ (output.request = "destroyed") <=> (err = TimedOutError)
    /\ output' = [output EXCEPT !.request = "failed",
                                !.promise = Settle(@, Rejected(err))]
    /\ UNCHANGED << input, handlerVars, sessionVars >>

\* The gateway closes the connection after the status line and before the
\* end of the body: the response emits "aborted" and "close", and "error"
\* only to listeners, of which it has none; the request emits no "error"
\* once it has a response, and the timeout of a closed socket never fires.
\* No listener of forwardToOpenClaw runs.
ResponseAborted ==
    /\ output.returned
    /\ output.request = "open"
    /\ output' = [output EXCEPT !.request = "aborted"]
    /\ UNCHANGED << input, handlerVars, sessionVars >>

NextForward ==
    \/ CallForwardToOpenClaw
    \/ \E status \in StatusCodes, raw \in RawBodies : ResponseEnds(status, raw)
    \/ ResponseAborted
    \/ RequestTimesOut
    \/ \E err \in ConnectionErrors \cup {TimedOutError} : RequestErrors(err)

SpecForward == InitForward /\ [][NextForward]_vars

\* The promise forwardToOpenClaw returned.
Promise == output.promise

\* C22: the promise of forwardToOpenClaw is settled once for every outcome
\* of the exchange: it is pending only while the request is open or being
\* destroyed after a timeout, it is settled by the first of the response
\* end, the error after a timeout and a connection error, and never changes
\* afterwards: a response resolves it with the parsed body exactly when the
\* body is JSON and the status is below 400 and rejects it otherwise; an
\* error event rejects it with that error, after a timeout with the
\* timed-out error; the timeout is config.timeoutMs, 120 s when that is
\* undefined.  Violated by a response the gateway cuts off before its end:
\* the exchange is over and the promise stays pending.
C22_SettlesOnceOriginal ==
    /\ [](output.returned /\ input.fn = "forwardToOpenClaw" =>
            /\ output.timeout =
                 (IF input.timeoutMs.given THEN input.timeoutMs.ms ELSE 120 * 1000)
            /\ output.request \in {"open", "destroyed"} <=> Promise.state = "pending")
    /\ [][(output.returned /\ Promise.state # "pending") =>
             Promise' = Promise]_vars
    /\ [][\A status \in StatusCodes, raw \in RawBodies :
             ResponseEnds(status, raw) =>
                IF ParsesAsJSON(raw) /\ status < 400
                THEN Promise' = [state |-> "resolved", value |-> JSONparse(raw)]
                ELSE Promise'.state = "rejected"]_vars
    /\ [][\A err \in ConnectionErrors \cup {TimedOutError} :
             (RequestErrors(err) /\ Promise.state = "pending") =>
                /\ Promise' = [state |-> "rejected", reason |-> err]
                /\ (output.request = "destroyed") <=> (err = TimedOutError)]_vars

(***************************************************************************)
(* Claims about the streaming translators.                                 *)
(***************************************************************************)
\* The chunks among frames: the stream_event frames of a chat stream.
ChunksOf(frames) == SelectSeq(frames, LAMBDA f : f.type = "stream_event")

\* The tool call a chunk carries, if any.
CarriesToolCall(f) ==
    /\ f.type = "stream_event"
    /\ "tool_calls" \in DOMAIN f.event.choices[1].delta

\* The chunk of a toolcall_end event: the tool call with its id filled in.
IsToolCallEndChunk(f) ==
    /\ CarriesToolCall(f)
    /\ "id" \in DOMAIN f.event.choices[1].delta.tool_calls[1]
    /\ f.event.choices[1].delta.tool_calls[1].id # ""

\* The chunk of a toolcall_start event: the tool call with an empty id.
IsToolCallStartChunk(f) ==
    /\ CarriesToolCall(f)
    /\ "id" \in DOMAIN f.event.choices[1].delta.tool_calls[1]
    /\ f.event.choices[1].delta.tool_calls[1].id = ""

\* C23: in a Chat-Completions stream every chunk but the last carries
\* finish_reason null, and the last chunk of a finished stream carries
\* tool_calls if a toolcall_end event was received and stop otherwise, also
\* after an error or exception and for a tool call started but not ended.
C23_FinishReason ==
    \A h \in Handlers :
        (dialect[h] = "chat" /\ EnteredStreaming(h)) =>
            LET chunks == ChunksOf(FramesOf(h))
                ended == \E i \in 1..Len(chunks) : IsToolCallEndChunk(chunks[i])
                open == IF Finished(h) THEN Len(chunks) - 1 ELSE Len(chunks)
            IN  /\ \A i \in 1..open :
                      chunks[i].event.choices[1].finish_reason = "null"
                /\ Finished(h) =>
                      /\ chunks[Len(chunks)].event.choices[1].delta = EmptyObject
                      /\ chunks[Len(chunks)].event.choices[1].finish_reason =
                            (IF ended THEN "tool_calls" ELSE "stop")
                /\ ended <=> Len(completedToolCalls[h]) > 0

\* A chat stream that threw after a tool call was started and given
\* arguments but never ended: it finished with stop.
C23_Witness ==
    \E h \in Handlers :
        /\ dialect[h] = "chat"
        /\ EnteredStreaming(h)
        /\ pc[h] = "resolved"
        /\ failure[h] \in Exceptions
        /\ partialArgs[h] \notin {NoCall, << >>}
        /\ FinishReasonSent(h) = "stop"

\* The chunks that announce a started tool call, in the order sent.
ToolCallStartChunks(h) == SelectSeq(FramesOf(h), IsToolCallStartChunk)

\* C24 (as stated): the k-th toolcall_start event of a chat stream (k = 0,
\* 1, ...) is announced by a tool-call-started chunk at index k, so no two
\* tool calls of a stream share an index, also when a tool call starts
\* before the previous one has ended.
C24_IndicesFirstSeenOriginal ==
    \A h \in Handlers :
        (dialect[h] = "chat" /\ EnteredStreaming(h)) =>
            LET starts == ToolCallStartChunks(h)
            IN  \A k \in 1..Len(starts) :
                   starts[k].event.choices[1].delta.tool_calls[1].index = k - 1

\* C25 (as stated): in a stream of either dialect, the delivery of a typed
\* error event sends exactly one frame, the error frame with code
\* plugin_error and the event's message on the request's id, and stores the
\* usage reported with the error; the stream stays open, so that it still
\* ends with its finalize frame(s) and stream_end.
C25_ErrorEventFramedOriginal ==
    [][\A h \in Handlers :
          \A ev \in StreamEvents :
              (ev.type = "error" /\ StreamEvent(h, ev)) =>
                  /\ FramesOf(h)' =
                        Append(FramesOf(h),
                               ErrorFrame(requestId[h], ev.error.errorMessage))
                  /\ usage'[h] = ConvertUsage(dialect[h], ev.error.usage)
                  /\ pc'[h] = "streaming"]_vars

ToolCallEventTypes == {"toolcall_start", "toolcall_delta", "toolcall_end"}

\* C26: the delivery of a toolcall_start, toolcall_delta or toolcall_end
\* event to a Responses stream sends no frame and leaves the text, the usage
\* and the position of the stream as they were, so that the frames, the
\* final text and the usage are those of the same events without the
\* tool-call events, and no frame of a Responses stream carries a tool call;
\* delivered to a Chat-Completions stream, such an event sends exactly one
\* chunk, which carries a tool call.
C26_ToolCallEventsIgnored ==
    /\ [](\A h \in Handlers :
             (dialect[h] = "responses" /\ EnteredStreaming(h)) =>
                 /\ completedToolCalls[h] = << >>
                 /\ \A i \in 1..Len(FramesOf(h)) :
                        FrameClass(FramesOf(h)[i]) \in
                           {"created", "item_added", "opened", "delta", "error",
                            "text_done", "finalize", "stream_end"})
    /\ [][\A h \in Handlers :
             \A ev \in StreamEvents :
                 (ev.type \in ToolCallEventTypes /\ StreamEvent(h, ev)) =>
                     IF dialect[h] = "responses"
                     THEN /\ FramesOf(h)' = FramesOf(h)
                          /\ accumulatedText'[h] = accumulatedText[h]
                          /\ usage'[h] = usage[h]
                          /\ completedToolCalls'[h] = completedToolCalls[h]
                          /\ currentToolCallIndex'[h] = currentToolCallIndex[h]
                          /\ pc'[h] = pc[h]
                     ELSE /\ Len(FramesOf(h)') = Len(FramesOf(h)) + 1
                          /\ SubSeq(FramesOf(h)', 1, Len(FramesOf(h))) = FramesOf(h)
                          /\ CarriesToolCall(FramesOf(h)'[Len(FramesOf(h)')])]_vars

\* A finished Responses stream whose backend started a tool call and streamed
\* arguments for it, next to text: the frames are those of the text alone.
C26_Witness ==
    \E h \in Handlers :
        /\ dialect[h] = "responses"
        /\ EnteredStreaming(h)
        /\ pc[h] = "resolved"
        /\ partialArgs[h] \notin {NoCall, << >>}
        /\ accumulatedText[h] # << >>
        /\ Classes(FramesOf(h)) =
              << "created", "item_added", "opened", "delta",
                 "text_done", "finalize", "stream_end" >>

\* The response.output_text.delta frames invocation h has sent, in order.
TextDeltaFrames(h) ==
    SelectSeq(FramesOf(h),
              LAMBDA f : f.type = "stream_event"
                         /\ "type" \in DOMAIN f.event
                         /\ f.event.type = "response.output_text.delta")

\* The concatenation of the delta texts of the frames.
DeltaTexts(frames) == Concat([i \in 1..Len(frames) |-> frames[i].event.delta])

\* C27: in a Responses stream the delivery of a text_delta event sends
\* exactly one response.output_text.delta frame with the event's delta at
\* output_index 0 and content_index 0, the accumulated text is the
\* concatenation of the deltas sent so far, and the text of
\* response.output_text.done and of response.completed is the concatenation
\* of all deltas sent before them, also after an error event or an
\* exception.
C27_TextDeltasAccumulate ==
    /\ [](\A h \in Handlers :
             (dialect[h] = "responses" /\ EnteredStreaming(h)) =>
                 LET frames == FramesOf(h)
                     deltas == TextDeltaFrames(h)
                 IN  /\ \A i \in 1..Len(deltas) :
                            /\ deltas[i].event.output_index = 0
                            /\ deltas[i].event.content_index = 0
                     /\ DeltaTexts(deltas) = accumulatedText[h]
                     /\ Finished(h) =>
                           LET done == frames[Len(frames) - 2]
                               completed == frames[Len(frames) - 1]
                           IN  /\ done.event.type = "response.output_text.done"
                               /\ done.event.text = DeltaTexts(deltas)
                               /\ completed.event.type = "response.completed"
                               /\ completed.event.response.output[1].content[1].text
                                     = DeltaTexts(deltas)
                               /\ \A i \in 1..Len(frames) :
                                     FrameClass(frames[i]) = "delta"
                                        => i < Len(frames) - 2)
    /\ [][\A h \in Handlers :
             \A ev \in StreamEvents :
                 (ev.type = "text_delta" /\ dialect[h] = "responses"
                  /\ StreamEvent(h, ev)) =>
                     /\ Len(FramesOf(h)') = Len(FramesOf(h)) + 1
                     /\ SubSeq(FramesOf(h)', 1, Len(FramesOf(h))) = FramesOf(h)
                     /\ LET f == FramesOf(h)'[Len(FramesOf(h)')]
                        IN  /\ f.id = requestId[h]
                            /\ f.event.type = "response.output_text.delta"
                            /\ f.event.delta = ev.delta
                            /\ f.event.output_index = 0
                            /\ f.event.content_index = 0]_vars

\* A Responses stream that sent two different deltas and an error frame for
\* an error event, then threw: its final frames carry both deltas in order.
C27_Witness ==
    \E h \in Handlers :
        /\ dialect[h] = "responses"
        /\ EnteredStreaming(h)
        /\ pc[h] = "resolved"
        /\ failure[h] \in Exceptions
        /\ reported[h] # << >>
        /\ CountClass(FramesOf(h), "error") = 2
        /\ accumulatedText[h] = << "a", "b" >>
        /\ FramesOf(h)[Len(FramesOf(h)) - 2].event.text = << "a", "b" >>

(***************************************************************************)
(* Claims about the non-streaming translators.                             *)
(***************************************************************************)
NonStreamingDone == input.fn = "handleNonStreaming" /\ output.returned

\* What the body of a response frame carries, per dialect.
BodyText(d, body) ==
    IF d = "chat"
    THEN (IF body.choices[1].message.content = Null THEN << >>
          ELSE body.choices[1].message.content)
    ELSE Concat([i \in 1..Len(body.output[1].content) |->
                    body.output[1].content[i].text])

BodyToolCalls(d, body) ==
    IF d = "chat"
    THEN (IF "tool_calls" \in DOMAIN body.choices[1].message
          THEN body.choices[1].message.tool_calls ELSE << >>)
    ELSE SelectSeq(body.output, LAMBDA item : item.type = "function_call")

\* The backend's parts of type t, in order.
PartsOf(result, t) ==
    SelectSeq(result.content, LAMBDA part : part.type = t)

ExpectedFinishReason(result) ==
    IF PartsOf(result, "toolCall") # << >> THEN "tool_calls"
    ELSE IF result.stopReason = "length" THEN "length"
    ELSE "stop"

\* The body carries the backend's text, joined, and its tool calls, one per
\* part in order, each with the part's id and name and its arguments as JSON.
CarriesTextAndToolCalls(d, body, result) ==
    LET texts == PartsOf(result, "text")
        calls == PartsOf(result, "toolCall")
        items == BodyToolCalls(d, body)
    IN  /\ BodyText(d, body) = Concat([i \in 1..Len(texts) |-> texts[i].text])
        /\ Len(items) = Len(calls)
        /\ \A i \in 1..Len(calls) :
               /\ items[i].id = calls[i].id
               /\ items[i].type = "function"
               /\ items[i].function.name = calls[i].name
               /\ items[i].function.arguments = JSONstringify(calls[i].arguments)

\* C28 (as stated, an absent text read as the empty concatenation): the body
\* of the response frame of a non-streaming request of either dialect carries
\* the text parts joined and one tool call per tool-call part, in order, none
\* dropped.
C28_NonStreamingBodyOriginal ==
    NonStreamingDone =>
        /\ Len(output.value) = 1
        /\ output.value[1].type = "response"
        /\ CarriesTextAndToolCalls(input.dialect, output.value[1].body, input.result)

\* C28 (amended): the body of the one response frame of a non-streaming
\* Chat-Completions request carries the text parts joined (null when that
\* is empty), one tool call per tool-call part in order with id, name and
\* JSON arguments (the field is absent when there is none), and finish_reason
\* tool_calls if there is a tool call, else length if the stop reason is
\* length, else stop; the body of a Responses request is one completed
\* message with the joined text as its only content: no tool call, no
\* finish_reason.
C28_NonStreamingBody ==
    NonStreamingDone =>
        /\ Len(output.value) = 1
        /\ output.value[1].type = "response"
        /\ output.value[1].id = input.id
        /\ LET body == output.value[1].body
               texts == PartsOf(input.result, "text")
               text == Concat([i \in 1..Len(texts) |-> texts[i].text])
           IN  IF input.dialect = "chat"
               THEN /\ CarriesTextAndToolCalls("chat", body, input.result)
                    /\ body.choices[1].message.content = Null <=> text = << >>
                    /\ "tool_calls" \in DOMAIN body.choices[1].message
                          <=> PartsOf(input.result, "toolCall") # << >>
                    /\ body.choices[1].finish_reason =
                          ExpectedFinishReason(input.result)
               ELSE /\ body.status = "completed"
                    /\ Len(body.output) = 1
                    /\ body.output[1].type = "message"
                    /\ body.output[1].content =
                          << [type |-> "output_text", text |-> text] >>
                    /\ "finish_reason" \notin DOMAIN body

\* A chat result with two tool calls around a text part and stop reason
\* length: both calls are in the body, in order, and finish_reason is
\* tool_calls.
C28_Witness ==
    /\ NonStreamingDone
    /\ input.dialect = "chat"
    /\ Len(PartsOf(input.result, "toolCall")) = 2
    /\ input.result.stopReason = "length"
    /\ output.value[1].body.choices[1].finish_reason = "tool_calls"
    /\ output.value[1].body.choices[1].message.tool_calls[2].id = "c1"

(***************************************************************************)
(* Claims about concurrent requests.  A request handled alone is replayed  *)
(* with the translators' own functions, from the frames sent before        *)
(* streamSimple is called and through the events its backend may deliver.  *)
(***************************************************************************)
\* The frames sent that carry the id, in order.
FramesWithId(id) == SelectSeq(sent, LAMBDA f : f.id = id)

\* handleStreaming of dialect d for request id, alone, before its first event.
AloneStart(d, id) ==
    [frames |-> OpenFrames(d, id), text |-> << >>, usage |-> InitialUsage(d),
     completed |-> << >>, index |-> 0, partial |-> NoCall]

\* ... and after one more event.
AloneDeliver(d, id, s, ev) ==
    [frames |-> s.frames \o EventFrames(d, id, s.completed, s.index, ev),
     text |-> NextAccumulatedText(s.text, ev),
     usage |-> NextUsage(d, s.usage, ev),
     completed |-> NextCompletedToolCalls(d, s.completed, ev),
     index |-> IF d = "chat" THEN NextToolCallIndex(s.completed, s.index, ev)
               ELSE s.index,
     partial |-> NextPartialArgs(s.partial, ev)]

RECURSIVE AloneStreaming(_, _, _)
\* The stream of request id alone after at most n events.
AloneStreaming(d, id, n) ==
    IF n = 0 THEN { AloneStart(d, id) }
    ELSE LET before == AloneStreaming(d, id, n - 1)
         IN  before \cup
             { AloneDeliver(d, id, s, ev) : s \in before, ev \in ConcStreamEvents }

\* The frames of a finished stream of request id alone.
AloneFinished(d, id, n) ==
    LET final(s) == FinalFrames(d, id, s.text, s.completed, s.usage)
    IN  { s.frames \o final(s) : s \in AloneStreaming(d, id, n) }
        \cup { s.frames \o StreamingCatchFrames(id, err) \o final(s) :
                  s \in AloneStreaming(d, id, n), err \in ConcExceptions }

\* The frames of request id alone when it does not stream: none yet, the one
\* response frame, or the one error frame of the outer catch.
AloneOneShot(d, id) ==
    { << >> }
    \cup { OuterCatchFrames(id, err) :
              err \in ConcExceptions
                      \cup (IF d = "gateway" THEN {}
                            ELSE { BuildContextThrows(d, body) :
                                      body \in ConcBodies } \ {NoFailure}) }
    \cup (IF d = "gateway"
          THEN { << ResponseFrame(id, response) >> : response \in GatewayResponses }
          ELSE { NonStreamingFrames(d, id, result) : result \in ConcResults })

\* The runs alone of every request, within the events of SpecConc.
AloneStreams ==
    [d \in {"chat", "responses"}, id \in RequestIds |->
        AloneStreaming(d, id, MaxConcEvents)]
AloneFinishedStreams ==
    [d \in {"chat", "responses"}, id \in RequestIds |->
        AloneFinished(d, id, MaxConcEvents)]

\* Invocation h is the only one that was given its request id.
OwnId(h) ==
    /\ Started(h)
    /\ \A g \in Handlers \ {h} : Started(g) => requestId[g] # requestId[h]

\* What invocation h holds: its locals, and its frames.
Locals(h) ==
    << pc[h], requestId[h], dialect[h], isStreaming[h], timer[h], aborted[h],
       accumulatedText[h], usage[h], completedToolCalls[h],
       currentToolCallIndex[h], failure[h], FramesOf(h) >>

\* C29: when the invocations in flight have different request ids, the
\* frames sent with the id of each, in the order sent, are frames that
\* request sends when handled alone, and its text, tool-call list, index and
\* usage are those of that run alone; every element sent is one whole frame
\* of the invocation that sent it; and every step leaves the locals and the
\* frames of all invocations but one as they were.
C29_NoInterference ==
    /\ [](\A h \in Handlers :
             OwnId(h) =>
                 LET d == dialect[h]
                     id == requestId[h]
                     frames == FramesWithId(id)
                 IN  /\ frames = FramesOf(h)
                     /\ IF pc[h] = "streaming"
                        THEN [frames |-> frames, text |-> accumulatedText[h],
                              usage |-> usage[h],
                              completed |-> completedToolCalls[h],
                              index |-> currentToolCallIndex[h],
                              partial |-> partialArgs[h]]
                                \in AloneStreams[d, id]
                        ELSE IF EnteredStreaming(h)
                        THEN frames \in AloneFinishedStreams[d, id]
                        ELSE frames \in AloneOneShot(d, id))
    /\ [](\A i \in 1..Len(sent) :
             /\ sent[i].id = requestId[emitter[i]]
             /\ FrameClass(sent[i]) # "unknown")
    /\ [][\E h \in Handlers :
             \A g \in Handlers \ {h} : Locals(g)' = Locals(g)]_vars

\* Two finished streams of different dialects and ids, each of which was
\* delivered a text delta, with their frames interleaved: the delta frame of
\* the second lies between the delta frame and the finalize frame of the
\* first, and each has accumulated its own text only.
C29_Witness ==
    /\ \A h \in Handlers : EnteredStreaming(h) /\ pc[h] = "resolved"
    /\ requestId[1] # requestId[2]
    /\ dialect[1] # dialect[2]
    /\ Len(accumulatedText[1]) = 1
    /\ Len(accumulatedText[2]) = 1
    /\ \E i, j, k, l \in 1..Len(sent) :
          /\ i < j /\ j < k /\ k < l
          /\ emitter[i] = 1 /\ emitter[j] = 2 /\ emitter[k] = 1 /\ emitter[l] = 2
          /\ FrameClass(sent[i]) = "delta"
          /\ FrameClass(sent[j]) = "delta"
          /\ FrameClass(sent[k]) = "finalize"
          /\ FrameClass(sent[l]) = "finalize"

\* This step creates a new socket.
NewSocket == generation' # generation

\* This step writes a frame of a request to the socket.
WritesRequestFrame ==
    /\ Len(wire') = Len(wire) + 1
    /\ "id" \in DOMAIN wire'[Len(wire')]

\* C30: the PendingRequests are discarded whenever the socket is lost and
\* none is resumed: the pending set is empty from the loss of a socket until
\* the next one is READY; a request id enters it only with a request frame
\* read from the current socket, and a frame of a request is written only
\* for an id that is pending, to the current socket, so no frame of a request
\* that was pending at disconnect time is written to a later socket; a new
\* socket starts from the retry count and the stored credential alone.
C30_PendingDiscardedOnReconnect ==
    /\ [](pending # {} => (sessionState = "READY" /\ socket = "open"))
    /\ [][SocketLost => pending' = {}]_vars
    /\ [][NewSocket =>
             /\ generation' = generation + 1
             /\ pending = {} /\ pending' = {}
             /\ sessionState' = "CONNECTING" /\ socket' = "connecting"
             /\ backoffTimer' = "idle"
             /\ ~stopped' /\ ~authFailed'
             /\ attempts' = attempts /\ attempts > 0
             /\ jwt' = jwt]_vars
    /\ [][pending' \ pending # {} =>
             /\ ReceivesFrame
             /\ FrameType(ReceivedFrame) = "request"
             /\ pending' = pending \cup {ReceivedFrame.id}
             /\ socket = "open" /\ socket' = "open"
             /\ generation' = generation]_vars
    /\ [][WritesRequestFrame =>
             LET f == wire'[Len(wire')]
             IN  /\ f.id \in pending
                 /\ pending' = pending \ {f.id}
                 /\ f.socket = generation
                 /\ generation' = generation
                 /\ socket = "open"]_vars

\* The request req-1 was pending when the first socket closed; the session
\* is READY again on the second socket, after one retry, with nothing
\* pending, and no frame of req-1 was ever written.
C30_Witness ==
    /\ generation = 2
    /\ sessionState = "READY"
    /\ attempts = 1
    /\ pending = {}
    /\ \E i \in DOMAIN inbox :
          FrameType(inbox[i]) = "request" /\ inbox[i].id = "req-1"
    /\ \A i \in DOMAIN wire : wire[i].type = "auth"
    /\ \E i \in DOMAIN wire : wire[i].socket = 2

\* The types of the messages of the broker.
ServerMessageTypes == {"request", "ping", "auth_ok", "auth_error", "jwt_refresh"}

\* C31: a step that reads a frame that is not JSON, or whose type is not one
\* of request, ping, auth_ok, auth_error, jwt_refresh, changes nothing but
\* the record of frames read: the state, the credential, the pending
\* requests, the socket and the reconnect state are as before, no frame is
\* written, and the session is still receiving; validation rejects exactly
\* such frames.
C31_MalformedDropped ==
    /\ [](\A frame \in MalformedFrames \cup ServerMessages :
             ParsesAsServerMessage(frame) <=> FrameType(frame) \in ServerMessageTypes)
    /\ [][(ReceivesFrame /\ FrameType(ReceivedFrame) \notin ServerMessageTypes) =>
             /\ UNCHANGED << sessionState, jwt, pending, socket, generation,
                             backoffTimer, attempts, wire, stopped, authFailed >>
             /\ Receiving']_vars

\* An unparseable frame and a frame of unknown type were read, one while
\* AUTHENTICATING and one while READY with a request pending; the session is
\* READY on its first socket and the request is still pending.
C31_Witness ==
    /\ sessionState = "READY"
    /\ socket = "open"
    /\ generation = 1
    /\ pending = {"req-1"}
    /\ Len(inbox) = 4
    /\ inbox[1] = [malformed |-> "not json"]
    /\ FrameType(inbox[2]) = "auth_ok"
    /\ FrameType(inbox[3]) = "request"
    /\ inbox[4] = [type |-> "unknown"]

(***************************************************************************)
(* Claims about buildContext.                                              *)
(***************************************************************************)
\* The messages of the request: the chat messages, or the message items of a
\* list input.
RequestMessages ==
    IF input.fn = "chat.buildContext" THEN input.messages
    ELSE IF input.in.is = "array"
    THEN SelectSeq(input.in.items, LAMBDA item : item.type = "message")
    ELSE << >>

\* The text of a message as the request gives it.
MessageText(msg) ==
    IF input.fn = "chat.buildContext" THEN msg.content.text
    ELSE extractTextContent(msg.content)

\* The texts of the system and developer messages of the request, in order.
SystemTexts ==
    LET msgs == SelectSeq(RequestMessages,
                          LAMBDA msg : msg.role \in {"system", "developer"})
    IN  [i \in 1..Len(msgs) |-> MessageText(msgs[i])]

\* C32 (as stated): in both dialects the system prompt of the conversation
\* buildContext returns is the texts of all system and developer messages of
\* the request, in order, joined by "\n\n", and absent when there are none;
\* no turn of the conversation is a system or developer turn.
C32_SystemPromptOriginal ==
    BuiltContext =>
        /\ output.value.context.systemPrompt =
              (IF SystemTexts = << >> THEN Undefined
               ELSE Join(SystemTexts, << "\n", "\n" >>))
        /\ \A i \in 1..Len(output.value.context.messages) :
              output.value.context.messages[i].role \notin {"system", "developer"}

ChatBuilt == input.fn = "chat.buildContext" /\ output.returned

\* The user, assistant and tool messages of the chat request, in order.
TurnMessages ==
    SelectSeq(input.messages, LAMBDA msg : msg.role \in {"user", "assistant", "tool"})

\* The role of the turn a message of the role becomes.
TurnRole(role) == IF role = "tool" THEN "toolResult" ELSE role

\* C33: the conversation the chat buildContext returns has one turn per
\* user, assistant and tool message of the request, in the order of the
\* request, each of the role of its message (tool-result for tool), and the
\* turn of a tool message carries its tool_call_id as toolCallId; system
\* messages give no turn.  A request without any such message gets the one
\* substituted empty user turn.
C33_OneTurnPerMessage ==
    ChatBuilt =>
        LET turns == output.value.context.messages
            msgs == TurnMessages
        IN  IF msgs = << >> THEN turns = << EmptyUserTurn >>
            ELSE /\ Len(turns) = Len(msgs)
                 /\ \A i \in 1..Len(msgs) :
                       /\ turns[i].role = TurnRole(msgs[i].role)
                       /\ msgs[i].role = "tool" =>
                             /\ turns[i].toolCallId = msgs[i].tool_call_id
                             /\ turns[i].content = << TextPart(msgs[i].content) >>
                       /\ (msgs[i].role = "user" /\ msgs[i].content.is = "string") =>
                             turns[i].content = msgs[i].content.text

\* A tool message followed by a user message: a tool-result turn keyed c1,
\* then the user turn.
C33_Witness ==
    /\ ChatBuilt
    /\ Len(input.messages) = 2
    /\ input.messages[1].role = "tool"
    /\ input.messages[2] = [role |-> "user", content |-> Str(<<"a">>)]
    /\ Len(output.value.context.messages) = 2
    /\ output.value.context.messages[1].toolCallId = "c1"
    /\ output.value.context.messages[2] = [role |-> "user", content |-> <<"a">>]

\* The tool-call parts of a turn, in order.
ToolCallParts(turn) == SelectSeq(turn.content, LAMBDA part : part.type = "toolCall")

\* C34: buildContext returns for every chat request, and for each assistant
\* message with tool calls the turn is a tool-use turn (stopReason toolUse)
\* with one tool-call part per call, in order, after the text: with the
\* call's id and name, and as arguments the parsed value when the arguments
\* string is JSON and { _raw: the string } when it is not; the messages
\* after it are converted as usual.
C34_RawArgumentsFallback ==
    /\ [](input.fn = "chat.buildContext" => ENABLED CallChatBuildContext \/ output.returned)
    /\ [](ChatBuilt =>
            LET turns == output.value.context.messages
                msgs == TurnMessages
            IN  \A i \in 1..Len(msgs) :
                   (msgs[i].role = "assistant" /\ HasToolCalls(msgs[i])) =>
                       LET calls == msgs[i].tool_calls
                           parts == ToolCallParts(turns[i])
                       IN  /\ Len(turns) = Len(msgs)
                           /\ turns[i].role = "assistant"
                           /\ turns[i].stopReason = "toolUse"
                           /\ Len(parts) = Len(calls)
                           /\ \A k \in 1..Len(calls) :
                                 /\ parts[k].id = calls[k].id
                                 /\ parts[k].name = calls[k].function.name
                                 /\ parts[k].arguments =
                                       (IF ParsesAsJSON(calls[k].function.arguments)
                                        THEN JSONparse(calls[k].function.arguments)
                                        ELSE [_raw |-> calls[k].function.arguments]))

\* An assistant message whose first call has the arguments "{" and whose
\* second has "{}", followed by a tool message: the parts carry
\* { _raw: "{" } and the empty object, and the tool-result turn follows.
C34_Witness ==
    /\ ChatBuilt
    /\ Len(input.messages) = 2
    /\ input.messages[1].role = "assistant"
    /\ HasToolCalls(input.messages[1])
    /\ Len(input.messages[1].tool_calls) = 2
    /\ input.messages[2].role = "tool"
    /\ LET turn == output.value.context.messages[1]
       IN  /\ turn.stopReason = "toolUse"
           /\ ToolCallParts(turn)[1].arguments = [_raw |-> << "{" >>]
           /\ ToolCallParts(turn)[2].arguments = << >>
    /\ output.value.context.messages[2].role = "toolResult"

ResponsesBuilt == input.fn = "responses.buildContext" /\ output.returned

\* The items of a list input that the claim gives a turn: user message items
\* and function_call_output items, in order.
TurnItems ==
    SelectSeq(input.in.items,
              LAMBDA item : \/ item.type = "function_call_output"
                            \/ item.type = "message" /\ item.role = "user")

\* The user and tool-result turns of the conversation returned, in order.
UserAndToolTurns ==
    SelectSeq(output.value.context.messages,
              LAMBDA turn : turn.role \in {"user", "toolResult"})

\* The base64 images of the user message items of a list input, in order.
Base64ImagesOfUsers ==
    FlatMap(ResponsesImagesOfPart,
            FlatMap(LAMBDA item :
                       IF item.type = "message" /\ item.role = "user"
                          /\ item.content.is = "array"
                       THEN item.content.items ELSE << >>,
                    input.in.items))

\* C35 (as stated, the empty user turn substituted for a request without
\* turns left aside): the Responses buildContext gives a list input one user
\* turn per user message item and one tool-result turn, keyed by call_id, per
\* function_call_output item, in order; the images are the base64
\* input_image parts of all user message items, with or without text; system,
\* developer and reasoning items give no turn; a string input gives exactly
\* one user turn holding the string.
C35_ItemByItemOriginal ==
    ResponsesBuilt =>
        IF input.in.is = "string"
        THEN /\ output.value.context.messages =
                   << [role |-> "user", content |-> input.in.text] >>
             /\ output.value.images = << >>
        ELSE /\ output.value.images = Base64ImagesOfUsers
             /\ \/ TurnItems = << >>
                   /\ output.value.context.messages = << EmptyUserTurn >>
                \/ /\ Len(UserAndToolTurns) = Len(TurnItems)
                   /\ \A i \in 1..Len(TurnItems) :
                         IF TurnItems[i].type = "function_call_output"
                         THEN /\ UserAndToolTurns[i].role = "toolResult"
                              /\ UserAndToolTurns[i].toolCallId = TurnItems[i].call_id
                         ELSE UserAndToolTurns[i].role = "user"

(***************************************************************************)
(* The local HTTP proxy (createHttpProxy): one request from its arrival to *)
(* its response.  input is the request, output the state of its handler    *)
(* and of the ServerResponse.                                              *)
(***************************************************************************)
Methods == {"GET", "POST", "PUT"}

\* req.url: the segments of its path and its query string.
Url(segments, query) == [segments |-> segments, query |-> query]
Urls ==
    { Url(<< "v1", "suppliers" >>, ""),
      Url(<< "v1", "suppliers" >>, "x=1"),
      Url(<< "v1", "chat", "completions" >>, ""),
      Url(<< "v1", "chat", "completions" >>, "x=1"),
      Url(<< "v1", "chat", "completions", "agent-1" >>, ""),
      Url(<< "v1", "chat", "completions", "" >>, ""),
      Url(<< "v1", "chat", "completions", "agent-1", "x" >>, ""),
      Url(<< "v1", "models" >>, "") }

ProxyRequests == [fn : {"proxy"}, method : Methods, url : Urls]

\* Request bodies as readBody resolves them: JSON texts and others.
BodyTexts == { << "{", "}" >>, << "{", " ", "}" >>, << "{" >>, << >> }

\* The upstream's answers: status, content-type header (none when absent),
\* and whether the Response has a body stream.
UpstreamStatuses == {200, 402, 500}
ContentTypes == {"none", "application/json", "text/plain", "text/event-stream",
                 "text/event-stream; charset=utf-8"}
Upstreams ==
    [status : UpstreamStatuses, contentType : ContentTypes, hasBody : BOOLEAN]

ProxyErrors == { [name |-> "Error", message |-> "fetch failed"] }

\* url === "/v1/suppliers"
IsSuppliersUrl(url) == url = Url(<< "v1", "suppliers" >>, "")

\* url.match(/^\/v1\/chat\/completions(?:\/([^/?]+))?$/)
CompletionsMatch(url) ==
    /\ url.query = ""
    /\ \/ url.segments = << "v1", "chat", "completions" >>
       \/ /\ Len(url.segments) = 4
          /\ SubSeq(url.segments, 1, 3) = << "v1", "chat", "completions" >>
          /\ url.segments[4] # ""

\* completionsMatch[1]
AgentId(url) == IF Len(url.segments) = 4 THEN url.segments[4] ELSE "undefined"

\* contentType.includes("text/event-stream")
IncludesEventStream(contentType) ==
    contentType \in {"text/event-stream", "text/event-stream; charset=utf-8"}

\* The ServerResponse before anything is written, with the handler at a.
FreshResponse(a) ==
    [returned |-> TRUE, at |-> a, statusCode |-> 0, headersSent |-> FALSE,
     heads |-> 0, ended |-> 0, contentType |-> "none", body |-> "none",
     agentId |-> "undefined", upstream |-> [none |-> TRUE], serverUp |-> TRUE,
     request |-> "open"]

\* res.writeHead(status, { "Content-Type": contentType })
writeHead(res, status, contentType) ==
    [res EXCEPT !.statusCode = status, !.headersSent = TRUE,
                !.heads = @ + 1, !.contentType = contentType]

\* res.end(body): the handler has nothing more to do.
end(res, body) == [res EXCEPT !.ended = @ + 1, !.body = body, !.at = "done"]

\* res.writeHead(status, json); res.end(body)
Answer(res, status, body) == end(writeHead(res, status, "application/json"), body)

\* catch (err) of createHttpProxy's listener.
InternalError(res) ==
    end(IF ~res.headersSent THEN writeHead(res, 500, "application/json") ELSE res,
        "Internal proxy error")

InitProxy ==
    /\ NoRequest
    /\ NoSession
    /\ input \in ProxyRequests
    /\ output = NotReturned

\* The request listener calls handleRequest: route by method and url.
HandleRequest ==
    /\ input.fn = "proxy"
    /\ ~output.returned
    /\ output' =
          IF input.method = "GET" /\ IsSuppliersUrl(input.url)
          THEN FreshResponse("listSuppliers")
          ELSE IF input.method = "POST" /\ CompletionsMatch(input.url)
          THEN [FreshResponse("readBody") EXCEPT !.agentId = AgentId(input.url)]
          ELSE Answer(FreshResponse("route"), 404, "Not found")
    /\ UNCHANGED << input, handlerVars, sessionVars >>

\* await client.listSuppliers() returns.
ListSuppliersResolves ==
    /\ output.returned
    /\ output.at = "listSuppliers"
    /\ output' = Answer(output, 200, "suppliers")
    /\ UNCHANGED << input, handlerVars, sessionVars >>

\* await client.listSuppliers() throws.
ListSuppliersRejects(err) ==
    /\ output.returned
    /\ output.at = "listSuppliers"
    /\ output' = Answer(output, 502, err.message)
    /\ UNCHANGED << input, handlerVars, sessionVars >>

\* await readBody(req) returns the text; JSON.parse(bodyText).
ReadBodyResolves(bodyText) ==
    /\ output.returned
    /\ output.at = "readBody"
    /\ output' = IF ParsesAsJSON(bodyText)
                 THEN [output EXCEPT !.at = "respondRaw", !.request = "ended"]
                 ELSE Answer([output EXCEPT !.request = "ended"], 400,
                             "Invalid JSON body")
    /\ UNCHANGED << input, handlerVars, sessionVars >>

\* The request stream errors while the body is read.
ReadBodyRejects ==
    /\ output.returned
    /\ output.at = "readBody"
    /\ output' = Answer([output EXCEPT !.request = "errored"], 400,
                        "Invalid JSON body")
    /\ UNCHANGED << input, handlerVars, sessionVars >>

\* await client.respondRaw(rawBody, agentId) returns the upstream Response.
RespondRawResolves(upstream) ==
    /\ output.returned
    /\ output.at = "respondRaw"
    /\ output' =
          IF IncludesEventStream(upstream.contentType) /\ upstream.hasBody
          THEN [writeHead(output, upstream.status, "text/event-stream")
                   EXCEPT !.at = "piping", !.upstream = upstream]
          ELSE [output EXCEPT !.at = "upstreamText", !.upstream = upstream]
    /\ UNCHANGED << input, handlerVars, sessionVars >>

\* await client.respondRaw(...) throws.
RespondRawRejects(err) ==
    /\ output.returned
    /\ output.at = "respondRaw"
    /\ output' = Answer(output, 502, err.message)
    /\ UNCHANGED << input, handlerVars, sessionVars >>

\* await upstream.text() returns: forward body and status.
UpstreamTextResolves ==
    /\ output.returned
    /\ output.at = "upstreamText"
    /\ output' =
          end(writeHead(output, output.upstream.status,
                        IF output.upstream.contentType = "none"
                        THEN "application/json"
                        ELSE output.upstream.contentType),
              "upstream body")
    /\ UNCHANGED << input, handlerVars, sessionVars >>

\* await upstream.text() throws: the exception leaves handleRequest and is
\* caught by the listener.
UpstreamTextRejects ==
    /\ output.returned
    /\ output.at = "upstreamText"
    /\ output' = InternalError(output)
    /\ UNCHANGED << input, handlerVars, sessionVars >>

\* nodeStream.pipe(res): the upstream body ends, pipe ends the response.
PipeEnds ==
    /\ output.returned
    /\ output.at = "piping"
    /\ output' = end(output, "event stream")
    /\ UNCHANGED << input, handlerVars, sessionVars >>

\* The upstream body fails while piped: the readable emits an error no
\* listener takes, the response is not ended.
PipeErrors ==
    /\ output.returned
    /\ output.at = "piping"
    /\ output' = [output EXCEPT !.at = "abandoned", !.serverUp = FALSE]
    /\ UNCHANGED << input, handlerVars, sessionVars >>

NextProxy ==
    \/ HandleRequest
    \/ ListSuppliersResolves
    \/ \E err \in ProxyErrors : ListSuppliersRejects(err)
    \/ \E bodyText \in BodyTexts : ReadBodyResolves(bodyText)
    \/ ReadBodyRejects
    \/ \E upstream \in Upstreams : RespondRawResolves(upstream)
    \/ \E err \in ProxyErrors : RespondRawRejects(err)
    \/ UpstreamTextResolves
    \/ UpstreamTextRejects
    \/ PipeEnds
    \/ PipeErrors

SpecProxy == InitProxy /\ [][NextProxy]_vars

\* Nothing more happens to the request: its handler has finished, or the
\* pipe that was to end the response has failed.
ProxyOver ==
    input.fn = "proxy" /\ output.returned /\ output.at \in {"done", "abandoned"}

\* C36: the proxy answers every request once: a finished handler has written
\* one status and ended the response once, and no handler writes a second
\* status or ends twice.  The status is 200 or 502 for GET /v1/suppliers
\* (the list, or listing failed); for POST /v1/chat/completions[/<agentId>]
\* 400 when the body is not JSON or cannot be read, 502 when the upstream
\* call throws, 500 when reading the upstream's body throws before any
\* status was written, and the upstream's status otherwise; 404 for every
\* other method or url; an event stream is answered with the upstream's
\* status as soon as the upstream has answered.  The server is running after
\* every handler that finished, with or without an exception.  Violated by
\* an event stream whose upstream body fails while it is piped: the
\* response is never ended and the unhandled "error" stops the server.
C36_OneResponseOriginal ==
    /\ [](input.fn = "proxy" /\ output.returned =>
            /\ output.heads <= 1 /\ output.ended <= 1
            /\ output.headersSent <=> output.heads = 1
            /\ output.at = "done" => output.ended = 1
            /\ output.at \in {"listSuppliers", "readBody", "respondRaw",
                              "upstreamText"} => output.heads = 0
            /\ output.at \in {"piping", "abandoned"} =>
                  /\ output.heads = 1
                  /\ output.statusCode = output.upstream.status
                  /\ output.contentType = "text/event-stream")
    /\ [](ProxyOver =>
            /\ output.heads = 1 /\ output.ended = 1
            /\ output.serverUp
            /\ IF input.method = "GET" /\ input.url = Url(<< "v1", "suppliers" >>, "")
               THEN output.statusCode \in {200, 502}
                    /\ (output.statusCode = 200 <=> output.body = "suppliers")
               ELSE IF /\ input.method = "POST"
                       /\ input.url \in { Url(<< "v1", "chat", "completions" >>, ""),
                                          Url(<< "v1", "chat", "completions",
                                                 "agent-1" >>, "") }
               THEN CASE output.request = "errored" -> output.statusCode = 400
                      [] output.upstream = [none |-> TRUE] ->
                           output.statusCode \in {400, 502}
                      [] output.body = "Internal proxy error" ->
                           output.statusCode = 500
                      [] OTHER -> output.statusCode = output.upstream.status
               ELSE output.statusCode = 404 /\ output.body = "Not found")
    /\ [][\A bodyText \in BodyTexts :
             ReadBodyResolves(bodyText) =>
                IF bodyText \in { << "{", "}" >>, << "{", " ", "}" >> }
                THEN output'.heads = 0 /\ output'.at = "respondRaw"
                ELSE output'.statusCode = 400 /\ output'.at = "done"]_vars
    /\ [][\A err \in ProxyErrors :
             RespondRawRejects(err) =>
                output'.statusCode = 502 /\ output'.at = "done"]_vars
    /\ [][UpstreamTextRejects =>
             ~output.headersSent /\ output'.statusCode = 500 /\ output'.serverUp]_vars

(***************************************************************************)
(* Claims about the body object the caller passes.                         *)
(***************************************************************************)
\* The gateway forwarder has run its statements on the body.
GatewayHandlerRan ==
    input.fn = "gateway.handleIncomingRequest" /\ output # NotReturned

\* The objects of the call, while it awaits and after it returned.
HeapNow == IF output.returned THEN output.value.heap ELSE output.heap

\* C37: the gateway forwarder does not mutate the body it is given: while
\* it awaits forwardToOpenClaw and after it returned, with a response frame
\* or with an error frame, the caller's object is the value that was passed
\* (same stream, same tools, same other properties); the writes of stream =
\* false and of the sanitized tools went to another object, which is the
\* forwarded body.
C37_BodyNotMutated ==
    GatewayHandlerRan =>
        /\ HeapNow.objects.body = input.body
        /\ HeapNow.forwardBody # "body"
        /\ ForwardBodyOf(HeapNow) = ForwardBody(input.body)
        /\ ForwardBodyOf(HeapNow).props.stream = JBool(FALSE)

\* A call with stream true and two tools, one invalid, returned with an
\* error frame: the forwarded object has stream false and one tool, the
\* caller's has stream true and two.
C37_Witness ==
    /\ GatewayHandlerRan
    /\ output.returned
    /\ output.value.frame.type = "error"
    /\ input.body.kind = "object"
    /\ "stream" \in DOMAIN input.body.props
    /\ input.body.props.stream = JBool(TRUE)
    /\ "tools" \in DOMAIN input.body.props
    /\ input.body.props.tools.kind = "array"
    /\ Len(input.body.props.tools.items) = 2
    /\ Len(ForwardBodyOf(HeapNow).props.tools.items) = 1
    /\ HeapNow.objects.body.props.stream = JBool(TRUE)
    /\ Len(HeapNow.objects.body.props.tools.items) = 2

(***************************************************************************)
(* Claims about the end of a request.                                      *)
(***************************************************************************)
\* A response or stream_end frame.
IsTerminalFrame(f) == f.type \in {"response", "stream_end"}

\* Invocation h has sent a response or stream_end frame.
TerminalSent(h) ==
    \E i \in 1..Len(FramesOf(h)) : IsTerminalFrame(FramesOf(h)[i])

\* C38: within one invocation the terminal frame is final: a response or
\* stream_end frame is the last frame the invocation has sent and the only
\* terminal one, handleStreaming / handleNonStreaming has returned when it
\* is sent, and no step taken afterwards (the resumption of the await,
\* backend events, failures, the deadline, steps of other invocations) adds
\* a frame of that invocation.
C38_TerminalFrameFinal ==
    /\ [](\A h \in Handlers :
            LET frames == FramesOf(h)
            IN  /\ \A i \in 1..Len(frames) :
                      IsTerminalFrame(frames[i]) => i = Len(frames)
                /\ TerminalSent(h) => Finished(h))
    /\ [][\A h \in Handlers :
            TerminalSent(h) => FramesOf(h)' = FramesOf(h)]_vars

\* A streaming request received text, was closed with stream_end, and its
\* deadline or further backend activity can no longer reach it.
C38_Witness ==
    \E h \in Handlers :
        /\ isStreaming[h]
        /\ pc[h] = "resolved"
        /\ Len(FramesOf(h)) >= 4
        /\ FramesOf(h)[Len(FramesOf(h))].type = "stream_end"
        /\ accumulatedText[h] # << >>
        /\ eventsLeft > 0

\* Invocation h has returned: its promise is settled.
HandlerReturned(h) == pc[h] \in {"resolved", "rejected"}

\* C39: the deadline timer of a request is cancelled when its handler
\* finishes: no returned invocation has an armed timer, the step by which an
\* invocation with an armed timer returns (a result, a backend error or an
\* exception) clears it, and after the return the timer never fires and the
\* cancellation signal is never triggered.
C39_TimerCancelledOnReturn ==
    /\ [](\A h \in Handlers : HandlerReturned(h) => timer[h] # "armed")
    /\ [][\A h \in Handlers :
            (timer[h] = "armed" /\ ~HandlerReturned(h) /\ HandlerReturned(h)') =>
                timer'[h] = "cleared" /\ aborted'[h] = aborted[h]]_vars
    /\ [][\A h \in Handlers :
            HandlerReturned(h) =>
                timer'[h] = timer[h] /\ aborted'[h] = aborted[h]]_vars

\* A request whose backend threw before the deadline: the handler returned,
\* the timer is cleared and the signal was not triggered.
C39_Witness ==
    \E h \in Handlers :
        /\ HandlerReturned(h)
        /\ failure[h] # NoFailure
        /\ timer[h] = "cleared"
        /\ ~aborted[h]

(***************************************************************************)
(* Claims about convertToolsToClientTools as a function.                   *)
(***************************************************************************)
\* convertToolsToClientTools was applied to a list and then to its result.
ConvertedTwice ==
    /\ input.fn = "convertToolsToClientTools"
    /\ output.returned
    /\ "again" \in DOMAIN output

\* C40: convertToolsToClientTools is idempotent and never grows its input:
\* the list it returns for its own output equals that output, and its
\* output has at most as many entries as its input.
C40_IdempotentNeverGrows ==
    /\ (input.fn = "convertToolsToClientTools" /\ output.returned) =>
          Len(output.value) <= Len(input.tools)
    /\ ConvertedTwice =>
          /\ output.again = output.value
          /\ Len(output.again) <= Len(output.value)

\* A list of an invalid entry and a tool with extra fields was converted to
\* one sanitized tool, and converting that again gave the same one tool.
C40_Witness ==
    /\ ConvertedTwice
    /\ Len(input.tools) = 2
    /\ Len(output.value) = 1
    /\ Len(output.again) = 1
    /\ \E i \in 1..2 :
          /\ ValidTool(input.tools[i])
          /\ "execute" \in DOMAIN input.tools[i].props.function.props
          /\ output.value[1] # input.tools[i]

====
